---- MODULE Spec2Model ----
(***************************************************************************)
(* Model of the tradeflight animation-to-video pipeline:                   *)
(*   - ReusableCanvas.recordAnimation: one recording session per call      *)
(*     (marker icon load, capture stream + MediaRecorder, the animate      *)
(*     frame loop, the trailing stop timer, recorder.onstop);              *)
(*   - ReusableCanvas.startRecording / downloadMp4 (the ffmpeg stages);    *)
(*   - the layout's Generate button, audio input and export buttons.       *)
(*                                                                         *)
(* Time is kept per session as the milliseconds elapsed since the          *)
(* session's startTime (performance.now() - startTime) and since the stop  *)
(* timer was armed; both saturate once no comparison of the code can tell  *)
(* larger values apart.  progress is kept scaled by animationDuration:     *)
(* progressMs = progress * animationDuration, so progress < 1 is           *)
(* progressMs < animationDuration.                                         *)
(***************************************************************************)
EXTENDS Integers, FiniteSets, Sequences, TLC

\* ---------------------------------------------------------------- bounds
MaxPreviews == 1        \* preview recordings alive at the same time
Duration == 1           \* the duration (seconds) typed into the form
FrameIntervalMs == 400  \* display refresh interval of the environment
MaxFrameSkip == 2       \* refresh intervals that can pass between two frames
ShortAudioMs == 700     \* length of the shorter audio file the user can attach
LongAudioMs == 2600     \* length of the longer audio file the user can attach
MaxPoints == 3          \* points of a configuration
MaxFormPoints == 3      \* points of the form
MaxObjects == 3         \* point objects alive at once
MaxPresets == 1         \* presets kept at once
MaxSnapFrames == 2      \* frames of a session in the snapshot specification
MaxTitleLen == 3        \* characters of a title (besides the titles named)
MantissaBits == 4       \* significant bits of a floating-point number
FloatScale == 16        \* floating-point numbers are counted in 1/FloatScale
MaxExponent == 12       \* largest binary exponent of a floating-point number
ChartLeft == 1          \* chart rectangle of the frame, in pixels
ChartTop == 1
GraphWidth == 8
GraphHeight == 6

\* ------------------------------------------------------ program constants
MsPerSecond == 1000     \* duration * 1000
GraceDelayMs == 500     \* setTimeout(() => recorder.stop(), 500)
LabelFontSize == 24     \* labelFontSize = 24
BaseOffset == 40        \* const baseOffset = 40
LabelSpacing == 12      \* const spacing = 12
LabelPadding == 14      \* const padding = 14

\* The layout awaits one export at a time (its buttons are disabled
\* meanwhile) and the closure of that export is kept in ExportSlot; the
\* canvas effect starts previews without waiting for anyone.
ExportSlot == 0
PreviewSlots == 1..MaxPreviews
Slots == {ExportSlot} \cup PreviewSlots
DurationInputs == {Duration}
AudioLengths == {ShortAudioMs, LongAudioMs}

Min(a, b) == IF a < b THEN a ELSE b

VARIABLES
    generatedConfig,  \* layout state: the configuration finalized by Generate
    isRecording,      \* layout state
    isConverting,     \* layout state
    audioFile,        \* layout state: an audio file is attached
    sessions,         \* slot -> recordAnimation closure (or FreeSlot)
    ffmpeg,           \* ffmpegRef.current: loaded flag, output.mp4
    frame,            \* one frame's geometry and drawing, step by step
    layers,           \* one frame's layer order
    labelPass,        \* one frame's label placement
    fileName,         \* one call of generateFileName
    form,             \* the layout's point form, presets and Generate
    tick,             \* one call of animate: its timestamp and progress
    layout,           \* one pass of the padding system and the vertical scale
    snap,             \* the props of the canvas and the snapshots of its sessions
    wmark,            \* the watermark settings, the canvas's watermark prop and image cache
    preload           \* the watermark image's loading and the heights sessions reserve for it

\* The computations inside a frame, the file name and the point form are
\* followed in specifications of their own (FrameSpec, LayerSpec, LabelSpec,
\* FileNameSpec, FormSpec); the recording specification keeps them idle.
detailVars == <<frame, layers, labelPass, fileName, form,
          tick,
          layout,
          snap,
          wmark,
          preload>>

recordingVars == <<generatedConfig, isRecording, isConverting, audioFile,
                   sessions, ffmpeg>>

vars == <<generatedConfig, isRecording, isConverting, audioFile, sessions,
          ffmpeg, frame, layers, labelPass, fileName, form,
          tick,
          layout,
          snap,
          wmark,
          preload>>

Idle == [stage |-> "idle"]

NoConfig == [duration |-> 0]

\* A slot that holds no session.
FreeSlot ==
    [origin |-> "free", downloadWebm |-> FALSE, animationDuration |-> 0,
     audio |-> FALSE, audioMs |-> 0, callId |-> 0,
     icon |-> "loading", captureThrew |-> FALSE,
     recorder |-> "none", starts |-> 0, stops |-> 0,
     arms |-> 0, resolves |-> 0,
     elapsed |-> 0, raf |-> FALSE, drawn |-> FALSE, progressMs |-> -1,
     stopTimer |-> "none", graceElapsed |-> 0, span |-> -1,
     events |-> "none", chunks |-> 0,
     promise |-> "pending", rawDownloaded |-> FALSE,
     pc |-> "none", failedStage |-> "none",
     audioWritten |-> FALSE, execArgs |-> <<>>, execRet |-> -1,
     outDuration |-> -1,
     errorToasts |-> 0, successToasts |-> 0, mp4Downloaded |-> 0]

\* The state recordAnimation leaves behind when it returns its promise: the
\* geometry is computed, the marker icon is requested, nothing is recorded.
\* audio belongs to the downloadMp4 call that awaits the promise (the
\* audioFile prop of the render the call was made from).
recordAnimation(origin, downloadWebm, config, audio) ==
    [FreeSlot EXCEPT
        !.origin = origin,
        !.downloadWebm = downloadWebm,
        !.animationDuration = config.duration * MsPerSecond,
        !.audio = audio,
        !.pc = IF origin = "preview" THEN "none" ELSE "recordAnimation"]

\* A session whose promise is resolved and whose caller has returned is no
\* longer referenced by the program.
Garbage ==
    {s \in Slots : /\ sessions[s].promise = "resolved"
                   /\ sessions[s].pc \in {"none", "returned"}}

\* The sessions still referenced when the next task starts: the closures of
\* finished sessions have been released.
Alive ==
    [s \in Slots |-> IF s \in Garbage THEN FreeSlot ELSE sessions[s]]

\* An identity for the output.mp4 written by an exec: a number that does
\* not name the output.mp4 now in the engine.
NewCallId == IF ffmpeg.output = 1 THEN 2 ELSE 1

FreeSlots == {s \in PreviewSlots : Alive[s].origin = "free"}
NextSlot == CHOOSE s \in FreeSlots : \A o \in FreeSlots : s <= o

RecordingInit ==
    /\ generatedConfig = NoConfig
    /\ isRecording = FALSE
    /\ isConverting = FALSE
    /\ audioFile = FALSE
    /\ sessions = [s \in Slots |-> FreeSlot]
    /\ ffmpeg = [loaded |-> FALSE, output |-> 0]

Init ==
    /\ RecordingInit
    /\ frame = Idle
    /\ layers = Idle
    /\ labelPass = Idle
    /\ fileName = Idle
    /\ form = Idle
    /\ tick = Idle
    /\ layout = Idle
    /\ snap = Idle
    /\ wmark = Idle
    /\ preload = Idle

\* ------------------------------------------------------------ the layout

\* Generate: a valid duration finalizes a new configuration; the canvas
\* (re)renders with new props and its effect starts a preview recording.
handleGenerate(parsedDuration) ==
    /\ parsedDuration > 0
    /\ FreeSlots # {}
    /\ generatedConfig' = [duration |-> parsedDuration]
    /\ sessions' = [Alive EXCEPT ![NextSlot] =
            recordAnimation("preview", FALSE, generatedConfig', FALSE)]
    /\ UNCHANGED <<isRecording, isConverting, audioFile, ffmpeg>>
    /\ UNCHANGED detailVars

\* The audio input / remove-audio button below the canvas.
setAudioFile ==
    /\ generatedConfig # NoConfig
    /\ audioFile' = ~audioFile
    /\ sessions' = Alive
    /\ UNCHANGED <<generatedConfig, isRecording, isConverting, ffmpeg>>
    /\ UNCHANGED detailVars

\* disabled={isRecording || isConverting}
ButtonsDisabledMutant == FALSE

ButtonsDisabled == isRecording \/ isConverting

\* The slot of the closure an export click creates.
ExportTarget ==
    IF Alive[ExportSlot].origin = "free" \/ FreeSlots = {}
    THEN ExportSlot ELSE NextSlot

\* Download WebM: setIsRecording(true); startRecording() runs up to its
\* await of recordAnimation(true).
DownloadWebmClick ==
    /\ generatedConfig # NoConfig
    /\ ~ButtonsDisabled
    /\ Alive[ExportTarget].origin = "free"
    /\ isRecording' = TRUE
    /\ sessions' = [Alive EXCEPT ![ExportTarget] =
            recordAnimation("startRecording", TRUE, generatedConfig,
                            FALSE)]
    /\ UNCHANGED <<generatedConfig, isConverting, audioFile, ffmpeg>>
    /\ UNCHANGED detailVars

\* Download MP4: setIsConverting(true); downloadMp4() runs up to its await
\* of recordAnimation(false).
DownloadMp4Click ==
    /\ generatedConfig # NoConfig
    /\ ~ButtonsDisabled
    /\ Alive[ExportTarget].origin = "free"
    /\ isConverting' = TRUE
    /\ sessions' = [Alive EXCEPT ![ExportTarget] =
            recordAnimation("downloadMp4", FALSE, generatedConfig,
                            audioFile)]
    /\ UNCHANGED <<generatedConfig, isRecording, audioFile, ffmpeg>>
    /\ UNCHANGED detailVars

\* ------------------------------------------------- the recording session

\* recorder.start(): the recorder created by onload goes to "recording".
StartedRecorderMutant(sess) ==
    [sess EXCEPT !.recorder = "inactive"]

StartedRecorder(sess) ==
    [sess EXCEPT !.recorder = "recording", !.starts = @ + 1]

\* planeImage.onload.  captureOk = FALSE: canvas.captureStream or
\* new MediaRecorder throws inside the event handler; the handler ends
\* there, nothing catches the exception and resolve is never reached.
PlaneImageOnload(s, captureOk) ==
    /\ sessions[s].origin # "free"
    /\ sessions[s].icon = "loading"
    /\ sessions' = [Alive EXCEPT ![s] =
            IF captureOk
            THEN [StartedRecorder(@) EXCEPT
                     !.icon = "loaded",
                     !.elapsed = 0,        \* startTime = performance.now()
                     !.raf = TRUE]         \* requestAnimationFrame(animate)
            ELSE [@ EXCEPT !.icon = "loaded", !.captureThrew = TRUE]]
    /\ UNCHANGED <<generatedConfig, isRecording, isConverting, audioFile,
                   ffmpeg>>
    /\ UNCHANGED detailVars

\* The marker icon fails to load: no onerror handler is registered.
PlaneImageError(s) ==
    /\ sessions[s].origin # "free"
    /\ sessions[s].icon = "loading"
    /\ sessions' = [Alive EXCEPT ![s].icon = "failed"]
    /\ UNCHANGED <<generatedConfig, isRecording, isConverting, audioFile,
                   ffmpeg>>
    /\ UNCHANGED detailVars

progressMutant(sinceStart, animationDuration) ==
    0

\* progress = Math.min((now - startTime) / animationDuration, 1), scaled by
\* animationDuration.
progress(sinceStart, animationDuration) ==
    Min(sinceStart, animationDuration)

\* if (progress < 1) requestAnimationFrame(animate)
FrameContinuesMutant(progressMs, animationDuration) ==
    TRUE

FrameContinues(progressMs, animationDuration) ==
    progressMs < animationDuration

animateMutant(sess) ==
    LET p == progress(sess.elapsed, sess.animationDuration) IN
    IF FrameContinues(p, sess.animationDuration)
    THEN [sess EXCEPT !.drawn = TRUE, !.progressMs = p, !.raf = TRUE]
    ELSE [sess EXCEPT !.drawn = TRUE, !.progressMs = p, !.raf = TRUE,
                      !.stopTimer = "armed", !.graceElapsed = 0,
                      !.arms = @ + 1]

\* One call of animate(now) with now - startTime = sess.elapsed: the frame
\* is drawn, then either the next frame is requested or the stop timer is
\* armed.
animate(sess) ==
    LET p == progress(sess.elapsed, sess.animationDuration) IN
    IF FrameContinues(p, sess.animationDuration)
    THEN [sess EXCEPT !.drawn = TRUE, !.progressMs = p, !.raf = TRUE]
    ELSE [sess EXCEPT !.drawn = TRUE, !.progressMs = p, !.raf = FALSE,
                      !.stopTimer = "armed", !.graceElapsed = 0,
                      !.arms = @ + 1]

\* Largest value of elapsed the model tells apart.
ElapsedCap(sess) == sess.animationDuration

\* The wall clock advances by ms milliseconds.
TimePasses(sess, ms) ==
    [sess EXCEPT
        !.elapsed = IF sess.starts > 0
                    THEN Min(@ + ms, ElapsedCap(sess)) ELSE @,
        !.graceElapsed = IF sess.stopTimer = "armed"
                         THEN Min(@ + ms, GraceDelayMs) ELSE @]

\* A display refresh, skip refresh intervals after the previous one (more
\* than one when frames were dropped): every requested frame callback runs.
DisplayFrame(skip) ==
    /\ sessions' = [s \in Slots |->
            IF Alive[s].raf
            THEN animate(TimePasses(Alive[s], skip * FrameIntervalMs))
            ELSE TimePasses(Alive[s], skip * FrameIntervalMs)]
    /\ UNCHANGED <<generatedConfig, isRecording, isConverting, audioFile,
                   ffmpeg>>
    /\ UNCHANGED detailVars

\* setTimeout(..., 500): the callback runs no earlier than 500 ms after the
\* timer was armed.
TimerDueMutant(sess) ==
    TRUE

TimerDue(sess) ==
    sess.graceElapsed >= GraceDelayMs

\* The time from recorder.start() to recorder.stop() when the stop timer's
\* callback runs now: the time of the final frame plus the time the timer
\* took.  elapsed and graceElapsed saturate, so this is the shortest span
\* the session can have recorded.
RecordedSpan(sess) == sess.elapsed + sess.graceElapsed

\* The stop timer's callback: recorder.stop(), which queues the task that
\* fires dataavailable and then stop.
StopTimerFired(s) ==
    /\ sessions[s].stopTimer = "armed"
    /\ TimerDue(sessions[s])
    /\ sessions' = [Alive EXCEPT ![s] =
            [@ EXCEPT !.stopTimer = "fired",
                      !.recorder = "inactive",
                      !.stops = @ + 1,
                      !.span = RecordedSpan(sessions[s]),
                      !.events = "stop"]]
    /\ UNCHANGED <<generatedConfig, isRecording, isConverting, audioFile,
                   ffmpeg>>
    /\ UNCHANGED detailVars

\* if (downloadWebm) { ... a.click() }
TriggersRawDownloadMutant(sess) ==
    TRUE

TriggersRawDownload(sess) ==
    sess.downloadWebm

\* if (!ffmpeg.loaded) await ffmpeg.load()
NeedsLoadMutant(engine) ==
    TRUE

NeedsLoad(engine) ==
    ~engine.loaded

\* The task queued by recorder.stop().
\* recorder.ondataavailable: if (e.data.size > 0) chunks.push(e.data); the
\* data holds the frames drawn while the recorder was recording.
\* recorder.onstop: build the blob, download it when asked to, resolve the
\* promise; the code awaiting the promise then runs up to its next await.
\*   preview:        the promise is not awaited;
\*   startRecording: toast.success, return; the layout's finally block runs
\*                   setIsRecording(false);
\*   downloadMp4:    ffmpeg.load() is called when needed, otherwise the raw
\*                   capture is handed to writeFile.
RecorderOnStop(s) ==
    LET sess == sessions[s]
        size == IF sess.drawn THEN 1 ELSE 0
        resolved == [sess EXCEPT !.chunks = IF size > 0 THEN @ + 1 ELSE @,
                                 !.events = "none",
                                 !.promise = "resolved",
                                 !.resolves = @ + 1,
                                 !.rawDownloaded = TriggersRawDownload(sess)]
    IN
    /\ sess.events = "stop"
    /\ CASE sess.origin = "startRecording" ->
              /\ sessions' = [Alive EXCEPT ![s] =
                    [resolved EXCEPT !.successToasts = @ + 1,
                                     !.pc = "returned"]]
              /\ isRecording' = FALSE
              /\ UNCHANGED isConverting
         [] sess.origin = "downloadMp4" ->
              /\ sessions' = [Alive EXCEPT ![s] =
                    [resolved EXCEPT !.pc = IF NeedsLoad(ffmpeg)
                                            THEN "load" ELSE "writeInput"]]
              /\ UNCHANGED <<isRecording, isConverting>>
         [] OTHER ->
              /\ sessions' = [Alive EXCEPT ![s] = resolved]
              /\ UNCHANGED <<isRecording, isConverting>>
    /\ UNCHANGED <<generatedConfig, audioFile, ffmpeg>>
    /\ UNCHANGED detailVars

\* ------------------------------------------------------------ downloadMp4

\* catch { toast.error(...) }: downloadMp4 returns normally.
Catch(sess, stage) ==
    [sess EXCEPT !.errorToasts = @ + 1, !.failedStage = stage,
                 !.pc = "returned"]

\* await ffmpeg.load() settles.
FfmpegLoadDone(s, ok) ==
    /\ sessions[s].pc = "load"
    /\ IF ok
       THEN /\ ffmpeg' = [ffmpeg EXCEPT !.loaded = TRUE]
            /\ sessions' = [Alive EXCEPT ![s].pc = "writeInput"]
            /\ UNCHANGED isConverting
       ELSE /\ sessions' = [Alive EXCEPT ![s] = Catch(@, "load")]
            /\ isConverting' = FALSE
            /\ UNCHANGED ffmpeg
    /\ UNCHANGED <<generatedConfig, isRecording, audioFile>>
    /\ UNCHANGED detailVars

\* The two argument lists handed to ffmpeg.exec.
MuxCommandMutant ==
    <<"-i", "input.webm", "-i", "audio", "-c:v", "libx264", "-preset",
      "ultrafast", "-c:a", "aac", "output.mp4">>

MuxCommand ==
    <<"-i", "input.webm", "-i", "audio", "-c:v", "libx264", "-preset",
      "ultrafast", "-c:a", "aac", "-shortest", "output.mp4">>

VideoOnlyCommand ==
    <<"-i", "input.webm", "-c:v", "libx264", "-preset", "ultrafast",
      "output.mp4">>

\* What the engine makes of an argument list: the files named after "-i"
\* are its inputs; the output is as long as its only input, and with two
\* inputs as long as the shorter one under "-shortest", as the longer one
\* without it.
ExecInputs(args) ==
    {args[i + 1] : i \in {j \in 1..(Len(args) - 1) : args[j] = "-i"}}

ExecOutputDuration(args, videoMs, audioMs) ==
    IF "audio" \in ExecInputs(args)
    THEN IF \E i \in 1..Len(args) : args[i] = "-shortest"
         THEN Min(videoMs, audioMs)
         ELSE IF videoMs < audioMs THEN audioMs ELSE videoMs
    ELSE videoMs

\* await ffmpeg.writeFile("input.webm", ...) settles; if (audioFile) the
\* audio is written next, else exec is called with the video-only command.
WriteInputDone(s, ok) ==
    /\ sessions[s].pc = "writeInput"
    /\ IF ok
       THEN /\ sessions' = [Alive EXCEPT ![s] =
                    IF sessions[s].audio
                    THEN [@ EXCEPT !.pc = "writeAudio"]
                    ELSE [@ EXCEPT !.execArgs = VideoOnlyCommand,
                                   !.pc = "exec"]]
            /\ UNCHANGED isConverting
       ELSE /\ sessions' = [Alive EXCEPT ![s] = Catch(@, "writeInput")]
            /\ isConverting' = FALSE
    /\ UNCHANGED <<generatedConfig, isRecording, audioFile, ffmpeg>>
    /\ UNCHANGED detailVars

\* await ffmpeg.writeFile("audio", ...) settles; exec is called with the
\* command that muxes the audio.
WriteAudioDone(s, ok) ==
    /\ sessions[s].pc = "writeAudio"
    /\ IF ok
       THEN /\ sessions' = [Alive EXCEPT ![s] =
                    [@ EXCEPT !.audioWritten = TRUE,
                              !.execArgs = MuxCommand,
                              !.pc = "exec"]]
            /\ UNCHANGED isConverting
       ELSE /\ sessions' = [Alive EXCEPT ![s] = Catch(@, "writeAudio")]
            /\ isConverting' = FALSE
    /\ UNCHANGED <<generatedConfig, isRecording, audioFile, ffmpeg>>
    /\ UNCHANGED detailVars

\* What await ffmpeg.exec([...]) can do: resolve with exit code 0 after
\* writing output.mp4, resolve with a non-zero exit code without having
\* written output.mp4, or reject.  The code does not look at the exit code.
ExecOutcomes == {"ok", "nonzero", "throw"}

\* The lengths the file written as "audio" can have; the engine is the
\* first to look at it.
ExecAudioLengths(sess) == IF sess.audioWritten THEN AudioLengths ELSE {0}

ExecDone(s, outcome, audioMs) ==
    /\ sessions[s].pc = "exec"
    /\ audioMs \in ExecAudioLengths(sessions[s])
    /\ CASE outcome = "ok" ->
              /\ ffmpeg' = [ffmpeg EXCEPT !.output = NewCallId]
              /\ sessions' = [Alive EXCEPT ![s] =
                    [@ EXCEPT !.callId = NewCallId, !.execRet = 0,
                              !.audioMs = audioMs,
                              !.outDuration = ExecOutputDuration(
                                  sessions[s].execArgs, sessions[s].span,
                                  audioMs),
                              !.pc = "readFile"]]
              /\ UNCHANGED isConverting
         [] outcome = "nonzero" ->
              /\ sessions' = [Alive EXCEPT ![s] =
                    [@ EXCEPT !.execRet = 1, !.pc = "readFile"]]
              /\ UNCHANGED <<ffmpeg, isConverting>>
         [] OTHER ->
              /\ sessions' = [Alive EXCEPT ![s] = Catch(@, "exec")]
              /\ isConverting' = FALSE
              /\ UNCHANGED ffmpeg
    /\ UNCHANGED <<generatedConfig, isRecording, audioFile>>
    /\ UNCHANGED detailVars

\* await ffmpeg.readFile("output.mp4") settles: it rejects when the file
\* does not exist (and may reject otherwise); on success the bytes read are
\* downloaded and toast.success is shown.
ReadFileDone(s, ok) ==
    /\ sessions[s].pc = "readFile"
    /\ ok => ffmpeg.output # 0
    /\ sessions' = [Alive EXCEPT ![s] =
            IF ok
            THEN [@ EXCEPT !.mp4Downloaded = ffmpeg.output,
                           !.successToasts = @ + 1,
                           !.pc = "returned"]
            ELSE Catch(@, "readFile")]
    /\ isConverting' = FALSE
    /\ UNCHANGED <<generatedConfig, isRecording, audioFile, ffmpeg>>
    /\ UNCHANGED detailVars

\* ------------------------------------------------- floating-point numbers
\* JavaScript numbers are binary floating-point: every operation returns
\* the exact result rounded to the nearest number with MantissaBits
\* significant bits, ties to the even mantissa.  A number is held as the
\* integer count of 1/FloatScale it stands for.

Pow2(k) == 2 ^ k

\* The binary exponent at which n/d is rounded.
RoundExponent(n, d) ==
    CHOOSE j \in 0..MaxExponent : n < Pow2(MantissaBits + j) * d

\* n/d >= 0 rounded to nearest, ties to even.
RoundPos(n, d) ==
    LET q == Pow2(RoundExponent(n, d))
        lo == (n \div (d * q)) * q
        twiceRest == 2 * (n - lo * d)
    IN  IF twiceRest < q * d THEN lo
        ELSE IF twiceRest > q * d THEN lo + q
        ELSE IF (lo \div q) % 2 = 0 THEN lo ELSE lo + q

Round(n, d) == IF n < 0 THEN 0 - RoundPos(0 - n, d) ELSE RoundPos(n, d)

ToFloat(i) == Round(i * FloatScale, 1)
FAdd(a, b) == Round(a + b, 1)
FSub(a, b) == Round(a - b, 1)
FMul(a, b) == Round(a * b, FloatScale)
FDiv(a, b) == IF b < 0 THEN Round((0 - a) * FloatScale, 0 - b)
              ELSE Round(a * FloatScale, b)

\* Math.sqrt: the correctly rounded square root.
FSqrt(a) ==
    LET n == a * FloatScale
        r == CHOOSE i \in 0..n : i * i <= n /\ (i + 1) * (i + 1) > n
        q == Pow2(RoundExponent(r, 1))
        lo == (r \div q) * q
        mid2 == (2 * lo + q) * (2 * lo + q)
    IN  IF 4 * n < mid2 THEN lo
        ELSE IF 4 * n > mid2 THEN lo + q
        ELSE IF (lo \div q) % 2 = 0 THEN lo ELSE lo + q

\* ------------------------------------------------- the geometry of a frame

\* p.time.split(":").map(Number); h * 60 + m
Minutes(time) == time.h * 60 + time.m

TimeInputs ==
    {[h |-> 9, m |-> 0], [h |-> 9, m |-> 5], [h |-> 9, m |-> 10],
     [h |-> 9, m |-> 20]}

ValueInputs == {8, 10, 15}

\* The point sequences a canvas is given: times strictly increasing, or
\* (against the contract) all equal; a single point is both.
PointInputs ==
    UNION {{pts \in [1..n -> [value : ValueInputs, time : TimeInputs]] :
              \/ \A i, j \in 1..n :
                    i < j => Minutes(pts[i].time) < Minutes(pts[j].time)
              \/ \A i, j \in 1..n : pts[i].time = pts[j].time}
           : n \in 1..MaxPoints}

\* progress values of a frame: 0, 1/2 and 1.
ProgressInputs == {0, FloatScale \div 2, FloatScale}

SeqMin(f) == CHOOSE a \in {f[i] : i \in DOMAIN f} :
                \A i \in DOMAIN f : a <= f[i]
SeqMax(f) == CHOOSE a \in {f[i] : i \in DOMAIN f} :
                \A i \in DOMAIN f : a >= f[i]

\* (maxTime - minTime || 1), (maxValue - minValue || 1)
DenominatorMutant(range) == range

Denominator(range) == IF range = 0 THEN 1 ELSE range

\* a / b * extent for integers a, b; 0 / 0 is NaN, and so is everything
\* computed from it.
NaN == 0 - Pow2(MantissaBits + MaxExponent)

Fraction(a, b, extent) ==
    IF b = 0 THEN NaN
    ELSE FMul(FDiv(ToFloat(a), ToFloat(b)), ToFloat(extent))

calculatedPoints(points) ==
    LET times == [i \in DOMAIN points |-> Minutes(points[i].time)]
        minTime == SeqMin(times)
        maxTime == SeqMax(times)
        values == [i \in DOMAIN points |-> points[i].value]
        maxValue == SeqMax(values)
        minValue == SeqMin(values)
        across(i) == Fraction(times[i] - minTime,
                              Denominator(maxTime - minTime), GraphWidth)
        up(i) == Fraction(values[i] - minValue,
                          Denominator(maxValue - minValue), GraphHeight)
    IN  [i \in DOMAIN points |->
            [x |-> IF across(i) = NaN THEN NaN
                   ELSE FAdd(ToFloat(ChartLeft), across(i)),
             y |-> IF up(i) = NaN THEN NaN
                   ELSE FSub(FAdd(ToFloat(ChartTop), ToFloat(GraphHeight)),
                             up(i)),
             value |-> points[i].value]]

\* Math.sqrt(dx * dx + dy * dy) for every pair of consecutive points.
segments(cp) ==
    [i \in 1..(Len(cp) - 1) |->
        LET dx == FSub(cp[i + 1].x, cp[i].x)
            dy == FSub(cp[i + 1].y, cp[i].y)
        IN  FSqrt(FAdd(FMul(dx, dx), FMul(dy, dy)))]

\* totalLength += len, in the order of the segments.
RECURSIVE totalLength(_, _)
totalLength(segs, n) ==
    IF n = 0 THEN 0 ELSE FAdd(totalLength(segs, n - 1), segs[n])

\* ctx.strokeStyle = end.value >= start.value ? "#16a34a" : "#dc2626"
IncreaseColour == "#16a34a"
DecreaseColour == "#dc2626"

strokeStyleMutant(start, end) ==
    IF end.value > start.value THEN IncreaseColour ELSE DecreaseColour

strokeStyle(start, end) ==
    IF end.value >= start.value THEN IncreaseColour ELSE DecreaseColour

\* The point at the fraction r of the segment from start to end.
Along(start, end, r) ==
    [x |-> FAdd(start.x, FMul(FSub(end.x, start.x), r)),
     y |-> FAdd(start.y, FMul(FSub(end.y, start.y), r))]

\* if (remaining >= seg): the whole segment is travelled.
FullyTravelledMutant(remaining, seg) == remaining > seg

FullyTravelled(remaining, seg) == remaining >= seg

\* The loop that strokes the travelled path, from segment i on.  division
\* holds the operands of remaining / seg where the loop computes it.
RECURSIVE DrawLine(_, _, _, _)
DrawLine(cp, segs, remaining, i) ==
    IF i > Len(segs) \/ remaining <= 0 THEN <<>>
    ELSE LET start == cp[i]
             end == cp[i + 1]
             seg == segs[i]
             lineTo == IF FullyTravelled(remaining, seg)
                       THEN [x |-> end.x, y |-> end.y]
                       ELSE Along(start, end, FDiv(remaining, seg))
             stroke == [segment |-> i,
                        strokeStyle |-> strokeStyle(start, end),
                        lineTo |-> lineTo,
                        division |-> IF FullyTravelled(remaining, seg)
                                     THEN <<>>
                                     ELSE <<remaining, seg>>]
         IN  <<stroke>> \o DrawLine(cp, segs,
                                    IF FullyTravelled(remaining, seg)
                                    THEN FSub(remaining, seg) ELSE 0,
                                    i + 1)

\* Math.atan2(dy, dx), kept as its two arguments: the angle of the
\* direction (dx, dy).
atan2(dy, dx) == [dy |-> dy, dx |-> dx]

\* let angle = 0: the angle of the direction (1, 0).
ZeroAngle == atan2(0, 1)

Sign(a) == IF a > 0 THEN 1 ELSE IF a < 0 THEN -1 ELSE 0

\* Two calls of Math.atan2 return the same angle when their directions
\* agree; atan2(0, 0) is 0.
SameAngle(a, b) ==
    LET na == IF a.dy = 0 /\ a.dx = 0 THEN ZeroAngle ELSE a
        nb == IF b.dy = 0 /\ b.dx = 0 THEN ZeroAngle ELSE b
    IN  /\ na.dy * nb.dx = na.dx * nb.dy
        /\ Sign(na.dy) = Sign(nb.dy)
        /\ Sign(na.dx) = Sign(nb.dx)

\* The loop that places the airplane, from segment i on with the airplane
\* at plane.
RECURSIVE Airplane(_, _, _, _, _)
Airplane(cp, segs, remain, i, plane) ==
    IF i > Len(segs) \/ remain <= 0 THEN plane
    ELSE LET start == cp[i]
             end == cp[i + 1]
             seg == segs[i]
             angle == atan2(FSub(end.y, start.y), FSub(end.x, start.x))
         IN  IF FullyTravelled(remain, seg)
             THEN Airplane(cp, segs, FSub(remain, seg), i + 1,
                           [x |-> end.x, y |-> end.y, angle |-> angle,
                            division |-> <<>>])
             ELSE LET at == Along(start, end, FDiv(remain, seg))
                  IN  [x |-> at.x, y |-> at.y, angle |-> angle,
                       division |-> <<remain, seg>>]

FrameInputs ==
    {[stage |-> "props", points |-> pts, progress |-> pr,
      calculatedPoints |-> <<>>, segments |-> <<>>, totalLength |-> 0,
      strokes |-> <<>>,
      plane |-> [x |-> 0, y |-> 0, angle |-> ZeroAngle, division |-> <<>>]] :
        pts \in PointInputs, pr \in ProgressInputs}

\* recordAnimation scales the data and measures the path.
ScaleData ==
    /\ frame.stage = "props"
    /\ LET cp == calculatedPoints(frame.points)
           segs == segments(cp)
       IN  frame' = [frame EXCEPT !.stage = "scaled",
                                  !.calculatedPoints = cp,
                                  !.segments = segs,
                                  !.totalLength = totalLength(segs, Len(segs))]
    /\ UNCHANGED <<recordingVars, layers, labelPass, fileName, form,
                   tick,
                   layout,
                   snap,
                   wmark,
                   preload>>

\* animate strokes the travelled path: remaining = totalLength * progress.
DrawTravelledPath ==
    /\ frame.stage = "scaled"
    /\ frame' = [frame EXCEPT
            !.stage = "path",
            !.strokes = DrawLine(frame.calculatedPoints, frame.segments,
                                 FMul(frame.totalLength, frame.progress), 1)]
    /\ UNCHANGED <<recordingVars, layers, labelPass, fileName, form,
                   tick,
                   layout,
                   snap,
                   wmark,
                   preload>>

\* animate places the airplane: remain = totalLength * progress.
DrawAirplane ==
    /\ frame.stage = "path"
    /\ frame' = [frame EXCEPT
            !.stage = "airplane",
            !.plane = Airplane(frame.calculatedPoints, frame.segments,
                               FMul(frame.totalLength, frame.progress), 1,
                               [x |-> frame.calculatedPoints[1].x,
                                y |-> frame.calculatedPoints[1].y,
                                angle |-> ZeroAngle,
                                division |-> <<>>])]
    /\ UNCHANGED <<recordingVars, layers, labelPass, fileName, form,
                   tick,
                   layout,
                   snap,
                   wmark,
                   preload>>

FrameInit ==
    /\ RecordingInit
    /\ frame \in FrameInputs
    /\ layers = Idle
    /\ labelPass = Idle
    /\ fileName = Idle
    /\ form = Idle
    /\ tick = Idle
    /\ layout = Idle
    /\ snap = Idle
    /\ wmark = Idle
    /\ preload = Idle

FrameNext ==
    \/ ScaleData
    \/ DrawTravelledPath
    \/ DrawAirplane

FrameSpec == FrameInit /\ [][FrameNext]_vars

\* --------------------------------------------------- the layers of a frame

WatermarkPositions ==
    {"top-left", "top-center", "top-right",
     "bottom-left", "bottom-center", "bottom-right"}

\* watermark.position.startsWith("top") / .startsWith("bottom") /
\* .includes("bottom")
StartsWithTop(position) ==
    position \in {"top-left", "top-center", "top-right"}

StartsWithBottom(position) ==
    position \in {"bottom-left", "bottom-center", "bottom-right"}

Anchor(position) == IF StartsWithBottom(position) THEN "bottom" ELSE "top"

\* The watermark prop: absent, or a configuration.  content says that the
\* thing to draw exists: the preloaded image for type "image", a non-empty
\* text for type "text".
WatermarkInputs ==
    {[present |-> FALSE, enabled |-> FALSE, type |-> "text",
      position |-> "top-left", content |-> FALSE]}
        \cup [present : {TRUE}, enabled : BOOLEAN, type : {"image", "text"},
               position : WatermarkPositions, content : BOOLEAN]

\* ctx.drawImage(img, x, y, ...) of the image watermark.
DrawImageWatermark(watermark) ==
    IF watermark.type = "image" /\ watermark.content
    THEN <<[layer |-> "watermark", anchor |-> Anchor(watermark.position)]>>
    ELSE <<>>

\* function drawWatermark()
drawWatermark(watermark) ==
    IF ~(watermark.present /\ watermark.enabled) THEN <<>>
    ELSE DrawImageWatermark(watermark)
         \o (IF watermark.type = "text" /\ watermark.content
             THEN <<[layer |-> "watermark",
                     anchor |-> Anchor(watermark.position)]>>
             ELSE <<>>)

\* The drawing calls of one animate(now), in the order in which the code
\* makes them.
DrawingCalls(props) ==
    LET watermark == props.watermark
        shown == watermark.present /\ watermark.enabled
        plain(layer) == [layer |-> layer, anchor |-> "none"]
    IN  <<plain("background")>>
        \o (IF shown /\ StartsWithTop(watermark.position)
            THEN drawWatermark(watermark) ELSE <<>>)
        \o (IF props.title THEN <<plain("title")>> ELSE <<>>)
        \o (IF props.description THEN <<plain("description")>> ELSE <<>>)
        \o (IF props.progress > 0 THEN <<plain("path")>> ELSE <<>>)
        \o [i \in 1..props.points |-> plain("marker")]
        \o [i \in 1..props.points |-> plain("label")]
        \o <<plain("airplane")>>
        \o (IF shown
            THEN DrawImageWatermark(watermark)
                 \o (IF StartsWithBottom(watermark.position)
                     THEN drawWatermark(watermark) ELSE <<>>)
            ELSE <<>>)

LayerInputs ==
    [stage : {"props"}, watermark : WatermarkInputs, title : BOOLEAN,
     description : BOOLEAN, points : 2..MaxPoints,
     progress : ProgressInputs, calls : {<<>>}]

\* One call of animate draws its frame.
DrawFrame ==
    /\ layers.stage = "props"
    /\ layers' = [layers EXCEPT !.stage = "drawn",
                                !.calls = DrawingCalls(layers)]
    /\ UNCHANGED <<recordingVars, frame, labelPass, fileName, form,
                   tick,
                   layout,
                   snap,
                   wmark,
                   preload>>

LayerInit ==
    /\ RecordingInit
    /\ layers \in LayerInputs
    /\ frame = Idle
    /\ labelPass = Idle
    /\ fileName = Idle
    /\ form = Idle
    /\ tick = Idle
    /\ layout = Idle
    /\ snap = Idle
    /\ wmark = Idle
    /\ preload = Idle

LayerNext == DrawFrame

LayerSpec == LayerInit /\ [][LayerNext]_vars

\* ------------------------------------------------- the labels of a frame
\* Lengths of the label pass are counted in tenths of a pixel.

Px(pixels) == pixels * 10

\* const lineHeight = labelFontSize * 1.4
LineHeight == LabelFontSize * 14

\* The lines of the label of point index of n: two for the first and the
\* last point, one for the others.
LabelLines(index, n) == IF index = 1 \/ index = n THEN 2 ELSE 1


\* The box of a label before the collision loop: centred under the point,
\* baseOffset below it.  measured is the width of its widest line.
UnadjustedBox(p, index, n) ==
    LET boxWidth == Px(p.measured) + Px(LabelPadding) * 2
        boxHeight == LabelLines(index, n) * LineHeight + Px(LabelPadding) * 2
        top == Px(p.y) + Px(BaseOffset)
    IN  [left |-> Px(p.x) - boxWidth \div 2,
         right |-> Px(p.x) + boxWidth \div 2,
         top |-> top,
         bottom |-> top + boxHeight]

overlaps(a, b) ==
    ~(\/ a.right <= b.left
      \/ a.left >= b.right
      \/ a.bottom <= b.top
      \/ a.top >= b.bottom)

\* top = placed.bottom + spacing
PushedTopMutant(placed) == placed.top

PushedTop(placed) == placed.bottom + Px(LabelSpacing)

\* for (const placed of placedLabels): the box is moved below every placed
\* box it overlaps, in the order of the placed boxes, from placed box k on.
RECURSIVE ForPlaced(_, _, _, _)
ForPlaced(box, placedLabels, k, moved) ==
    IF k > Len(placedLabels) THEN [box |-> box, moved |-> moved]
    ELSE IF overlaps(box, placedLabels[k])
         THEN LET top == PushedTop(placedLabels[k])
              IN  ForPlaced([box EXCEPT !.top = top,
                                        !.bottom = top + (box.bottom - box.top)],
                            placedLabels, k + 1, TRUE)
         ELSE ForPlaced(box, placedLabels, k + 1, moved)

\* while (moved)
WhileMovedMutant(moved) == FALSE

WhileMoved(moved) == moved

RECURSIVE Settle(_, _)
Settle(box, placedLabels) ==
    LET pass == ForPlaced(box, placedLabels, 1, FALSE)
    IN  IF WhileMoved(pass.moved) THEN Settle(pass.box, placedLabels)
        ELSE pass.box

\* calculatedPoints.forEach: the labels of the points 1..index are placed.
RECURSIVE PlaceLabels(_, _)
PlaceLabels(points, index) ==
    IF index = 0 THEN <<>>
    ELSE LET placedLabels == PlaceLabels(points, index - 1)
         IN  Append(placedLabels,
                    Settle(UnadjustedBox(points[index], index, Len(points)),
                           placedLabels))

\* The tag of the label of point index of n: index === 0 is tested first,
\* index === calculatedPoints.length - 1 second.  "" is no tag.
LabelTagMutant(index, n) ==
    IF index = n THEN "label.finalDestination"
    ELSE IF index = 1 THEN "label.start"
    ELSE ""

LabelTag(index, n) ==
    IF index = 1 THEN "label.start"
    ELSE IF index = n THEN "label.finalDestination"
    ELSE ""

\* A line of a label is t(tag) or `${p.value} (${p.time})`; the latter is
\* represented by the point it is formatted from.
TagLine(tag) == [tag |-> tag, valueTimeOf |-> 0]

ValueTimeLine(index) == [tag |-> "", valueTimeOf |-> index]

\* const lines = ...
lines(index, n) ==
    IF LabelTag(index, n) = "" THEN <<ValueTimeLine(index)>>
    ELSE <<TagLine(LabelTag(index, n)), ValueTimeLine(index)>>

\* const bg = ...
bg(index, n) ==
    IF index = 1 THEN "#d1fae5"
    ELSE IF index = n THEN "#fee2e2"
    ELSE "#f3f4f6"

\* The texts and the background drawn for the labels of n points.
DrawnLabels(n) == [index \in 1..n |-> [lines |-> lines(index, n),
                                       bg |-> bg(index, n)]]

\* Positions of points on the canvas (pixels) and measured label widths.
LabelXInputs == {100, 200, 300, 400}
LabelYInputs == {300, 350, 500}
MeasuredInputs == {80, 260}

LabelInputs ==
    UNION {{[stage |-> "props", points |-> pts, placedLabels |-> <<>>,
             labels |-> <<>>] :
              pts \in {q \in [1..n -> [x : LabelXInputs, y : LabelYInputs,
                                        measured : MeasuredInputs]] :
                          \A i, j \in 1..n : i < j => q[i].x < q[j].x}}
           : n \in 1..MaxPoints}

\* The label pass of one frame.
DrawLabels ==
    /\ labelPass.stage = "props"
    /\ labelPass' = [labelPass EXCEPT
            !.stage = "placed",
            !.placedLabels = PlaceLabels(labelPass.points,
                                         Len(labelPass.points)),
            !.labels = DrawnLabels(Len(labelPass.points))]
    /\ UNCHANGED <<recordingVars, frame, layers, fileName, form,
                   tick,
                   layout,
                   snap,
                   wmark,
                   preload>>

LabelInit ==
    /\ RecordingInit
    /\ labelPass \in LabelInputs
    /\ frame = Idle
    /\ layers = Idle
    /\ fileName = Idle
    /\ form = Idle
    /\ tick = Idle
    /\ layout = Idle
    /\ snap = Idle
    /\ wmark = Idle
    /\ preload = Idle

LabelNext == DrawLabels

LabelSpec == LabelInit /\ [][LabelNext]_vars

\* ----------------------------------------- the collision loop, pass by pass
\* The label pass of a frame followed through its loops: forEach takes the
\* next point (BeginLabel), while (moved) runs the for loop over the placed
\* boxes once per pass (CollisionPass), and the settled box is pushed
\* (PushLabel).  passes counts the passes made for the current label.
NoBox == [left |-> 0, right |-> 0, top |-> 0, bottom |-> 0]

\* More passes than any label needs.
PassCap == MaxPoints + 2

CollisionInputs ==
    {[stage |-> "next", points |-> l.points, placedLabels |-> <<>>,
      index |-> 1, box |-> NoBox, moved |-> FALSE, passes |-> 0] :
        l \in LabelInputs}

collisionUnchanged ==
    UNCHANGED <<recordingVars, frame, layers, fileName, form, tick, layout,
                snap, wmark, preload>>

\* let box = {...}; let moved = true
BeginLabel ==
    /\ labelPass.stage = "next"
    /\ labelPass' = [labelPass EXCEPT
            !.stage = "settling",
            !.box = UnadjustedBox(labelPass.points[labelPass.index],
                                  labelPass.index, Len(labelPass.points)),
            !.moved = TRUE,
            !.passes = 0]
    /\ collisionUnchanged

\* One pass of while (moved): moved = false; for (const placed of ...)
CollisionPass ==
    /\ labelPass.stage = "settling"
    /\ WhileMoved(labelPass.moved)
    /\ labelPass.passes < PassCap
    /\ LET pass == ForPlaced(labelPass.box, labelPass.placedLabels, 1, FALSE)
       IN  labelPass' = [labelPass EXCEPT
                !.box = pass.box,
                !.moved = pass.moved,
                !.passes = @ + 1]
    /\ collisionUnchanged

\* placedLabels.push(box), and the label is drawn; forEach goes on.
PushLabel ==
    /\ labelPass.stage = "settling"
    /\ ~WhileMoved(labelPass.moved)
    /\ labelPass' = [labelPass EXCEPT
            !.stage = IF labelPass.index = Len(labelPass.points)
                      THEN "placed" ELSE "next",
            !.placedLabels = Append(@, labelPass.box),
            !.index = @ + 1]
    /\ collisionUnchanged

CollisionInit ==
    /\ RecordingInit
    /\ labelPass \in CollisionInputs
    /\ frame = Idle
    /\ layers = Idle
    /\ fileName = Idle
    /\ form = Idle
    /\ tick = Idle
    /\ layout = Idle
    /\ snap = Idle
    /\ wmark = Idle
    /\ preload = Idle

CollisionNext ==
    \/ BeginLabel
    \/ CollisionPass
    \/ PushLabel

\* The loops are synchronous code: a pass that can run runs.
CollisionSpec ==
    CollisionInit /\ [][CollisionNext]_vars /\ WF_vars(CollisionNext)

\* ----------------------------------------------------------- the file name
\* A string is the sequence of its characters.

UpperCase ==
    <<"A", "B", "C", "D", "E", "F", "G", "H", "I", "J", "K", "L", "M", "N", "O", "P", "Q", "R", "S", "T", "U", "V", "W", "X", "Y", "Z">>

LowerCase ==
    <<"a", "b", "c", "d", "e", "f", "g", "h", "i", "j", "k", "l", "m", "n", "o", "p", "q", "r", "s", "t", "u", "v", "w", "x", "y", "z">>

Digits == <<"0", "1", "2", "3", "4", "5", "6", "7", "8", "9">>

Chars(str) == {str[i] : i \in DOMAIN str}

\* String.prototype.toLowerCase
toLowerCase(str) ==
    [i \in DOMAIN str |->
        IF str[i] \in Chars(UpperCase)
        THEN LowerCase[CHOOSE k \in DOMAIN UpperCase : UpperCase[k] = str[i]]
        ELSE str[i]]

\* [a-z0-9] under the flag i
IsAlphanumeric(c) ==
    c \in Chars(LowerCase) \cup Chars(UpperCase) \cup Chars(Digits)

\* .replace(/[^a-z0-9]+/gi, "-"): every run of other characters becomes one
\* hyphen.
RECURSIVE ReplaceRuns(_, _)
ReplaceRuns(str, i) ==
    IF i > Len(str) THEN <<>>
    ELSE IF IsAlphanumeric(str[i]) THEN <<str[i]>> \o ReplaceRuns(str, i + 1)
    ELSE IF i > 1 /\ ~IsAlphanumeric(str[i - 1]) THEN ReplaceRuns(str, i + 1)
    ELSE <<"-">> \o ReplaceRuns(str, i + 1)

\* .replace(/^-+|-+$/g, ""): the hyphens at both ends are removed.
RECURSIVE TrimStart(_)
TrimStart(str) ==
    IF str # <<>> /\ Head(str) = "-" THEN TrimStart(Tail(str)) ELSE str

RECURSIVE TrimEnd(_)
TrimEnd(str) ==
    IF str # <<>> /\ str[Len(str)] = "-"
    THEN TrimEnd(SubSeq(str, 1, Len(str) - 1)) ELSE str

TrimHyphensMutant(str) == str

TrimHyphens(str) == TrimEnd(TrimStart(str))

DefaultTitle == <<"t", "r", "a", "d", "e", "f", "l", "i", "g", "h", "t">>

\* title ? title.toLowerCase().replace(...).replace(...) : "tradeflight"
safeTitle(title) ==
    IF title # <<>>
    THEN TrimHyphens(ReplaceRuns(toLowerCase(title), 1))
    ELSE DefaultTitle

\* String(n) for n >= 0
RECURSIVE NumberToString(_)
NumberToString(n) ==
    IF n < 10 THEN <<Digits[n + 1]>>
    ELSE NumberToString(n \div 10) \o <<Digits[(n % 10) + 1]>>

\* .padStart(2, "0")
PadStart2(str) == IF Len(str) < 2 THEN <<"0">> \o str ELSE str

\* now.getFullYear() + "-" + ... + String(now.getSeconds()).padStart(2, "0")
timestamp(now) ==
    NumberToString(now.fullYear) \o <<"-">>
        \o PadStart2(NumberToString(now.month + 1)) \o <<"-">>
        \o PadStart2(NumberToString(now.date)) \o <<"_">>
        \o PadStart2(NumberToString(now.hours)) \o <<"-">>
        \o PadStart2(NumberToString(now.minutes)) \o <<"-">>
        \o PadStart2(NumberToString(now.seconds))

\* `${safeTitle}-${timestamp}.${ext}`
generateFileName(title, now, ext) ==
    safeTitle(title) \o <<"-">> \o timestamp(now) \o <<".">> \o ext

MyTrip == <<"M", "y", " ", "T", "r", "i", "p", "!">>

TitleAlphabet == {"a", "B", "7", " ", "-", "!"}

TitleInputs ==
    {MyTrip} \cup UNION {[1..n -> TitleAlphabet] : n \in 0..MaxTitleLen}

\* Values of new Date(): getFullYear, getMonth (from 0), getDate, getHours,
\* getMinutes, getSeconds.
NowInputs ==
    {[fullYear |-> 2024, month |-> 0, date |-> 1, hours |-> 0,
      minutes |-> 0, seconds |-> 0],
     [fullYear |-> 2024, month |-> 1, date |-> 29, hours |-> 9,
      minutes |-> 5, seconds |-> 59],
     [fullYear |-> 2025, month |-> 11, date |-> 31, hours |-> 23,
      minutes |-> 59, seconds |-> 7],
     [fullYear |-> 2026, month |-> 9, date |-> 10, hours |-> 12,
      minutes |-> 30, seconds |-> 10]}

ExtInputs == {<<"w", "e", "b", "m">>, <<"m", "p", "4">>}

FileNameInputs ==
    [stage : {"called"}, title : TitleInputs, now : NowInputs,
     ext : ExtInputs, name : {<<>>}]

\* a.download = generateFileName(ext)
SetDownloadName ==
    /\ fileName.stage = "called"
    /\ fileName' = [fileName EXCEPT
            !.stage = "named",
            !.name = generateFileName(fileName.title, fileName.now,
                                      fileName.ext)]
    /\ UNCHANGED <<recordingVars, frame, layers, labelPass, form,
                   tick,
                   layout,
                   snap,
                   wmark,
                   preload>>

FileNameInit ==
    /\ RecordingInit
    /\ fileName \in FileNameInputs
    /\ frame = Idle
    /\ layers = Idle
    /\ labelPass = Idle
    /\ form = Idle
    /\ tick = Idle
    /\ layout = Idle
    /\ snap = Idle
    /\ wmark = Idle
    /\ preload = Idle

FileNameNext == SetDownloadName

FileNameSpec == FileNameInit /\ [][FileNameNext]_vars

\* ---------------------------------------------------------------- the form
\* The points of the form are objects shared by reference: [...points] and
\* points.filter copy the array and keep its objects, and a preset keeps
\* the array it was saved from.  heap maps an object to its fields, arrays
\* are sequences of objects.

ObjIds == 1..MaxObjects

PresetIds == 1..MaxPresets

\* The value "" of a time input that is not filled in.
NoTime == [h |-> -1, m |-> -1]

FreeObj == [value |-> 0, time |-> NoTime]

\* timeToMinutes of the layout
timeToMinutes(time) == IF time = NoTime THEN 0 ELSE Minutes(time)

\* addFiveMinutes: Date.setMinutes(m + 5) carries into the hour and the
\* hour into the next day.
addFiveMinutes(time) ==
    IF time = NoTime THEN NoTime
    ELSE [h |-> ((time.h * 60 + time.m + 5) \div 60) % 24,
          m |-> (time.m + 5) % 60]

\* The point values an array of objects stands for.
Deref(heap, array) == [i \in DOMAIN array |-> heap[array[i]]]

\* validateTimes returns this and sets timeError to its negation.
validateTimes(updatedPoints) ==
    \A i \in DOMAIN updatedPoints :
        /\ updatedPoints[i].time # NoTime
        /\ i > 1 => timeToMinutes(updatedPoints[i].time)
                        > timeToMinutes(updatedPoints[i - 1].time)

Range(array) == {array[i] : i \in DOMAIN array}

\* The objects some array of the page still holds.
Referenced(f) ==
    Range(f.points) \cup Range(f.generated)
        \cup UNION {Range(f.presets[k].points) : k \in DOMAIN f.presets}

\* Objects no array holds are garbage.
Collect(f) ==
    [f EXCEPT !.heap = [o \in ObjIds |->
        IF o \in Referenced(f) THEN f.heap[o] ELSE FreeObj]]

\* The objects `count` new object literals get.
RECURSIVE NewObjects(_, _)
NewObjects(free, count) ==
    IF count = 0 THEN <<>>
    ELSE LET o == CHOOSE x \in free : \A y \in free : x <= y
         IN  <<o>> \o NewObjects(free \ {o}, count - 1)

FormTimeInputs == {NoTime, [h |-> 9, m |-> 0]}

FormValueInputs == {10, 15}

\* The rows the import dialog applies: at least two, none of them invalid
\* (isRowInvalid: a time on every row, later than the time of the row before).
ImportInputs ==
    {<<[value |-> 15, time |-> [h |-> 9, m |-> 0]],
       [value |-> 10, time |-> [h |-> 9, m |-> 10]]>>}

\* useState of TradeFlightLayout
FormStart ==
    [stage |-> "form",
     heap |-> [o \in ObjIds |->
                 IF o = 1 THEN [value |-> 10, time |-> [h |-> 9, m |-> 0]]
                 ELSE IF o = 2 THEN [value |-> 10, time |-> [h |-> 9, m |-> 5]]
                 ELSE FreeObj],
     points |-> <<1, 2>>,
     timeError |-> FALSE,
     presets |-> <<>>,
     activePresetId |-> 0,
     handed |-> <<>>,
     generated |-> <<>>]

formUnchanged == UNCHANGED <<recordingVars, frame, layers, labelPass, fileName,
                   tick,
                   layout,
                   snap,
                   wmark,
                   preload>>

\* updatePoint(index, field, value), index counted from 0
updatePoint(index, field, value) ==
    /\ form.stage = "form"
    /\ index + 1 \in DOMAIN form.points
    /\ LET o == form.points[index + 1]
           h1 == IF field = "value"
                 THEN [form.heap EXCEPT ![o].value = value]
                 ELSE [form.heap EXCEPT ![o].time = value]
           h2 == IF field = "time" /\ index = 0 /\ Len(form.points) > 1
                 THEN [h1 EXCEPT ![form.points[2]].time = addFiveMinutes(value)]
                 ELSE h1
       IN  form' = [form EXCEPT
                !.heap = h2,
                !.timeError = ~validateTimes(Deref(h2, form.points))]
    /\ formUnchanged

\* moveValue(index, direction): the values are swapped, the times stay.
moveValue(index, direction) ==
    /\ form.stage = "form"
    /\ index + 1 \in DOMAIN form.points
    /\ LET newIndex == IF direction = "up" THEN index - 1 ELSE index + 1
       IN  /\ ~(newIndex < 0 \/ newIndex >= Len(form.points))
           /\ LET a == form.points[index + 1]
                  b == form.points[newIndex + 1]
              IN  form' = [form EXCEPT
                        !.heap = [form.heap EXCEPT
                            ![a].value = form.heap[b].value,
                            ![b].value = form.heap[a].value]]
    /\ formUnchanged

addPoint ==
    /\ form.stage = "form"
    /\ ~form.timeError
    /\ Len(form.points) < MaxFormPoints
    /\ ObjIds \ Referenced(form) # {}
    /\ LET last == form.heap[form.points[Len(form.points)]]
           o == NewObjects(ObjIds \ Referenced(form), 1)[1]
           heap == [form.heap EXCEPT ![o] =
                        [value |-> last.value,
                         time |-> addFiveMinutes(last.time)]]
           updated == Append(form.points, o)
       IN  form' = [form EXCEPT
                !.heap = heap,
                !.points = updated,
                !.timeError = ~validateTimes(Deref(heap, updated))]
    /\ formUnchanged

\* if (index < 2) return;
FirstTwoPointsMutant(index) == index < 1

FirstTwoPoints(index) == index < 2

\* deletePoint(index), index counted from 0
deletePoint(index) ==
    /\ form.stage = "form"
    /\ index + 1 \in DOMAIN form.points
    /\ ~FirstTwoPoints(index)
    /\ LET updated == [i \in 1..(Len(form.points) - 1) |->
                          IF i < index + 1 THEN form.points[i]
                          ELSE form.points[i + 1]]
       IN  form' = Collect([form EXCEPT
                !.points = updated,
                !.timeError = ~validateTimes(Deref(form.heap, updated))])
    /\ formUnchanged

\* onApply of ImportPointsDialog: validateTimes(newPoints); setPoints(newPoints)
ApplyImport(newPoints) ==
    /\ form.stage = "form"
    /\ LET kept == Range(form.generated)
                       \cup UNION {Range(form.presets[k].points) :
                                       k \in DOMAIN form.presets}
       IN  /\ Cardinality(ObjIds \ kept) >= Len(newPoints)
           /\ LET objs == NewObjects(ObjIds \ kept, Len(newPoints))
                  heap == [o \in ObjIds |->
                            IF \E i \in DOMAIN objs : objs[i] = o
                            THEN newPoints[CHOOSE i \in DOMAIN objs :
                                               objs[i] = o]
                            ELSE form.heap[o]]
              IN  form' = Collect([form EXCEPT
                        !.heap = heap,
                        !.points = objs,
                        !.timeError = ~validateTimes(newPoints)])
    /\ formUnchanged

\* handleSaveAsNew with a name that is filled in and not taken: the preset
\* keeps the points array itself.
handleSaveAsNew ==
    /\ form.stage = "form"
    /\ Len(form.presets) < MaxPresets
    /\ LET id == CHOOSE x \in PresetIds :
                    /\ \A k \in DOMAIN form.presets : form.presets[k].id # x
                    /\ \A y \in PresetIds :
                          (\A k \in DOMAIN form.presets :
                                form.presets[k].id # y) => x <= y
       IN  form' = [form EXCEPT
                !.presets = Append(form.presets,
                                   [id |-> id, points |-> form.points]),
                !.activePresetId = id]
    /\ formUnchanged

\* handleUpdatePreset with a name that is filled in and not taken
handleUpdatePreset ==
    /\ form.stage = "form"
    /\ form.activePresetId # 0
    /\ form' = Collect([form EXCEPT
            !.presets = [k \in DOMAIN form.presets |->
                IF form.presets[k].id = form.activePresetId
                THEN [form.presets[k] EXCEPT !.points = form.points]
                ELSE form.presets[k]]])
    /\ formUnchanged

\* loadPreset(preset): setPoints(preset.data.points); timeError is not
\* touched.
loadPreset(k) ==
    /\ form.stage = "form"
    /\ k \in DOMAIN form.presets
    /\ form' = Collect([form EXCEPT
            !.points = form.presets[k].points,
            !.activePresetId = form.presets[k].id])
    /\ formUnchanged

deletePreset(id) ==
    /\ form.stage = "form"
    /\ \E k \in DOMAIN form.presets : form.presets[k].id = id
    /\ form' = Collect([form EXCEPT
            !.presets = SelectSeq(form.presets, LAMBDA p : p.id # id),
            !.activePresetId = IF id = form.activePresetId THEN 0 ELSE @])
    /\ formUnchanged

\* points: [...points]: a new array of the same point objects.
ShallowCopy(heap, array) == array

\* handleGenerate of the form, with a duration that parses to a positive
\* number: points: [...points] goes to the canvas.  handed keeps what the
\* points were at that moment, generated the array generatedConfig holds.
GenerateClick ==
    /\ form.stage = "form"
    /\ ~form.timeError
    /\ form' = Collect([form EXCEPT
            !.handed = Deref(form.heap, form.points),
            !.generated = ShallowCopy(form.heap, form.points)])
    /\ formUnchanged

FormInit ==
    /\ RecordingInit
    /\ form = FormStart
    /\ frame = Idle
    /\ layers = Idle
    /\ labelPass = Idle
    /\ fileName = Idle
    /\ tick = Idle
    /\ layout = Idle
    /\ snap = Idle
    /\ wmark = Idle
    /\ preload = Idle

FormNext ==
    \/ \E index \in 0..(MaxFormPoints - 1), value \in FormValueInputs :
            updatePoint(index, "value", value)
    \/ \E index \in 0..(MaxFormPoints - 1), time \in FormTimeInputs :
            updatePoint(index, "time", time)
    \/ \E index \in 0..(MaxFormPoints - 1), direction \in {"up", "down"} :
            moveValue(index, direction)
    \/ addPoint
    \/ \E index \in 0..(MaxFormPoints - 1) : deletePoint(index)
    \/ \E newPoints \in ImportInputs : ApplyImport(newPoints)
    \/ handleSaveAsNew
    \/ handleUpdatePreset
    \/ \E k \in 1..MaxPresets : loadPreset(k)
    \/ \E id \in PresetIds : deletePreset(id)
    \/ GenerateClick

FormSpec == FormInit /\ [][FormNext]_vars

\* The form edited with the point handlers alone, from the initial two points.
PointListNext ==
    \/ \E index \in 0..(MaxFormPoints - 1), value \in FormValueInputs :
            updatePoint(index, "value", value)
    \/ \E index \in 0..(MaxFormPoints - 1), time \in FormTimeInputs :
            updatePoint(index, "time", time)
    \/ \E index \in 0..(MaxFormPoints - 1), direction \in {"up", "down"} :
            moveValue(index, direction)
    \/ addPoint
    \/ \E index \in 0..(MaxFormPoints - 1) : deletePoint(index)

PointListSpec == FormInit /\ [][PointListNext]_vars

\* ------------------------------------------------- the progress of a frame
\* Values of performance.now() and of the timestamp requestAnimationFrame
\* passes to animate, in milliseconds.  The timestamp of a frame is the time
\* at which the frame began, which can precede a performance.now() read by a
\* handler that ran inside the same frame.
TimestampInputs == {0, 8, 16, 500, 1000, 1008, 1016, 1500, 2000, 3016}

StartTimeInputs == {0, 16, 1000, 1016}

TickInputs ==
    [stage : {"requested"}, now : TimestampInputs,
     startTime : StartTimeInputs,
     animationDuration : {d * MsPerSecond : d \in {Duration, Duration + 1}},
     progressMs : {0}]

\* const progress = Math.min((now - startTime) / animationDuration, 1),
\* kept multiplied by animationDuration.
ComputeProgress ==
    /\ tick.stage = "requested"
    /\ tick' = [tick EXCEPT
            !.stage = "computed",
            !.progressMs = progress(tick.now - tick.startTime,
                                    tick.animationDuration)]
    /\ UNCHANGED <<recordingVars, frame, layers, labelPass, fileName, form,
                   layout,
                   snap,
                   wmark,
                   preload>>

TickInit ==
    /\ RecordingInit
    /\ tick \in TickInputs
    /\ frame = Idle
    /\ layers = Idle
    /\ labelPass = Idle
    /\ fileName = Idle
    /\ form = Idle
    /\ layout = Idle
    /\ snap = Idle
    /\ wmark = Idle
    /\ preload = Idle

TickNext == ComputeProgress

TickSpec == TickInit /\ [][TickNext]_vars

\* ------------------------------------------------------ the padding system
\* Lengths are counted in hundredths of a pixel, which holds every product
\* with a size ratio (a multiple of 0.01) exactly.
Cpx(pixels) == pixels * 100

ratioMap ==
    [r \in {"16:9", "1:1", "9:16", "4:5"} |->
        CASE r = "16:9" -> [width |-> Cpx(1920), height |-> Cpx(1080)]
          [] r = "1:1" -> [width |-> Cpx(1440), height |-> Cpx(1440)]
          [] r = "9:16" -> [width |-> Cpx(1080), height |-> Cpx(1920)]
          [] r = "4:5" -> [width |-> Cpx(1350), height |-> Cpx(1688)]]

\* The label font sizes the settings allow: 8 to 64.
LabelFontSizeInputs == {8, 24, 64}

\* The size ratios the settings allow, in hundredths: 0.05 to 1.
SizeRatioInputs == {5, 100}

\* watermarkImageRef.current: no image, or the natural size of the image.
ImageInputs ==
    {[naturalWidth |-> 0, naturalHeight |-> 0],
     [naturalWidth |-> 200, naturalHeight |-> 100]}

\* The watermark of the settings: margin keeps its initial value 60.
LayoutWatermarkInputs ==
    {[enabled |-> FALSE, type |-> "image", text |-> FALSE,
      position |-> "bottom-right", sizeRatio |-> 12, margin |-> Cpx(60)]}
        \cup [enabled : {TRUE}, type : {"image", "text"}, text : BOOLEAN,
               position : WatermarkPositions, sizeRatio : SizeRatioInputs,
               margin : {Cpx(60)}]

LayoutValueInputs == {<<10, 15>>, <<15, 8, 10>>, <<10, 10>>}

LayoutInputs ==
    [stage : {"props"}, aspectRatio : DOMAIN ratioMap, title : BOOLEAN,
     description : BOOLEAN, labelFontSize : LabelFontSizeInputs,
     watermark : LayoutWatermarkInputs, image : ImageInputs,
     values : LayoutValueInputs,
     chart : {[chartTop |-> 0, chartBottom |-> 0, graphHeight |-> 0,
               chartLeft |-> 0, chartRight |-> 0]},
     y : {<<>>}]

\* wmHeight of the watermark size precalculation: the height of the image
\* at maxWidth when watermarkImageRef.current?.naturalWidth is truthy, the
\* font size of a text watermark, 0 otherwise.
wmHeight(watermark, width, image) ==
    LET maxWidth == (width * watermark.sizeRatio) \div 100
        imageHeight ==
            IF watermark.type = "image" /\ image.naturalWidth # 0
            THEN (maxWidth * image.naturalHeight) \div image.naturalWidth
            ELSE 0
    IN  IF watermark.type = "text" /\ watermark.text
        THEN (width * watermark.sizeRatio * 2) \div 1000
        ELSE imageHeight

\* The safe padding system of recordAnimation, down to graphHeight.
ChartRectangle(props) ==
    LET width == ratioMap[props.aspectRatio].width
        height == ratioMap[props.aspectRatio].height
        watermark == props.watermark
        watermarkTopOffset ==
            IF watermark.enabled /\ StartsWithTop(watermark.position)
            THEN wmHeight(watermark, width, props.image)
                    + watermark.margin * 2
            ELSE 0
        watermarkBottomOffset ==
            IF watermark.enabled /\ StartsWithBottom(watermark.position)
            THEN wmHeight(watermark, width, props.image)
                    + watermark.margin * 2
            ELSE 0
        headerHeight ==
            Cpx(120) + watermarkTopOffset
                + (IF props.title THEN Cpx(140) ELSE 0)
                + (IF props.description THEN Cpx(110) ELSE 0)
        gapBelowHeader == Cpx(120)
        baseBottom == IF watermark.enabled THEN Cpx(350) ELSE Cpx(280)
        dynamicBottomPadding == baseBottom + Cpx(props.labelFontSize * 6)
        bottomPadding == dynamicBottomPadding + watermarkBottomOffset
        dynamicSidePadding == Cpx(200) + Cpx(props.labelFontSize * 2)
        planeCompensation == Cpx(110) \div 2
        opticalAdjustment == Cpx(20)
        leftPadding == dynamicSidePadding
        rightPadding == dynamicSidePadding + planeCompensation
                            + opticalAdjustment
        chartTop == headerHeight + gapBelowHeader
        chartBottom == height - bottomPadding
    IN  [chartTop |-> chartTop, chartBottom |-> chartBottom,
         graphHeight |-> chartBottom - chartTop,
         chartLeft |-> leftPadding, chartRight |-> width - rightPadding]

\* y of calculatedPoints, multiplied by (maxValue - minValue || 1):
\* chartTop + graphHeight
\*     - ((value - minValue) / (maxValue - minValue || 1)) * graphHeight
ScaledY(values, chart) ==
    LET maxValue == SeqMax(values)
        minValue == SeqMin(values)
        range == Denominator(maxValue - minValue)
    IN  [i \in DOMAIN values |->
            (chart.chartTop + chart.graphHeight) * range
                - (values[i] - minValue) * chart.graphHeight]

\* recordAnimation lays the chart out.
LayOutChart ==
    /\ layout.stage = "props"
    /\ layout' = [layout EXCEPT !.stage = "laid out",
                                !.chart = ChartRectangle(layout)]
    /\ UNCHANGED <<recordingVars, frame, layers, labelPass, fileName, form,
                   tick,
                   snap,
                   wmark,
                   preload>>

\* recordAnimation scales the values onto the vertical axis.
ScaleValues ==
    /\ layout.stage = "laid out"
    /\ layout' = [layout EXCEPT !.stage = "scaled",
                                !.y = ScaledY(layout.values, layout.chart)]
    /\ UNCHANGED <<recordingVars, frame, layers, labelPass, fileName, form,
                   tick,
                   snap,
                   wmark,
                   preload>>

LayoutInit ==
    /\ RecordingInit
    /\ layout \in LayoutInputs
    /\ frame = Idle
    /\ layers = Idle
    /\ labelPass = Idle
    /\ fileName = Idle
    /\ form = Idle
    /\ tick = Idle
    /\ snap = Idle
    /\ wmark = Idle
    /\ preload = Idle

LayoutNext ==
    \/ LayOutChart
    \/ ScaleValues

LayoutSpec == LayoutInit /\ [][LayoutNext]_vars

\* ------------------------------------------------- the geometry snapshot
\* recordAnimation computes the geometry of a session into constants of its
\* closure; animate, defined inside, reads them.  The points are scaled as
\* in the geometry of a frame above.

BaseProps ==
    [aspectRatio |-> "16:9", title |-> FALSE, description |-> FALSE,
     labelFontSize |-> 24,
     watermark |-> [enabled |-> FALSE, type |-> "image", text |-> FALSE,
                    position |-> "bottom-right", sizeRatio |-> 12,
                    margin |-> Cpx(60)],
     image |-> [naturalWidth |-> 0, naturalHeight |-> 0],
     points |-> <<[value |-> 10, time |-> [h |-> 9, m |-> 0]],
                  [value |-> 15, time |-> [h |-> 9, m |-> 5]]>>]

\* The configurations Generate hands to the canvas.
PropsInputs ==
    {BaseProps,
     [BaseProps EXCEPT !.aspectRatio = "1:1"],
     [BaseProps EXCEPT !.title = TRUE, !.labelFontSize = 64],
     [BaseProps EXCEPT !.points =
        <<[value |-> 15, time |-> [h |-> 9, m |-> 0]],
          [value |-> 8, time |-> [h |-> 9, m |-> 5]],
          [value |-> 10, time |-> [h |-> 9, m |-> 20]]>>]}

\* The constants recordAnimation computes before the first frame.
Snapshot(props) ==
    LET cp == calculatedPoints(props.points)
        segs == segments(cp)
    IN  [width |-> ratioMap[props.aspectRatio].width,
         height |-> ratioMap[props.aspectRatio].height,
         chart |-> ChartRectangle(props),
         calculatedPoints |-> cp,
         segments |-> segs,
         totalLength |-> totalLength(segs, Len(segs))]

NoSnapshotSession == [stage |-> "free"]

\* recordAnimation called by code that sees props.
NewSnapshotSession(props) ==
    [stage |-> "running", snapshot |-> Snapshot(props), frames |-> 0,
     plane |-> [x |-> 0, y |-> 0, angle |-> ZeroAngle, division |-> <<>>]]

\* useImperativeHandle(ref, () => ({...})) has no dependency list: the
\* handle is rebuilt by every render and its methods see the props of the
\* last render, not those of the first.
ImperativeHandlePropsMutant(current, first) == first

ImperativeHandleProps(current, first) == current

\* The layout sets generatedConfig: the canvas renders with the new props
\* and its effect on [points, aspectRatio, duration, t] calls
\* recordAnimation(false).
RenderWithProps(props) ==
    /\ snap.stage = "mounted"
    /\ snap.sessions["preview"].stage = "free"
    /\ snap' = [snap EXCEPT
            !.props = props,
            !.sessions = [@ EXCEPT !["preview"] = NewSnapshotSession(props)]]
    /\ UNCHANGED <<recordingVars, frame, layers, labelPass, fileName, form,
                   tick, layout,
                   wmark,
                   preload>>

\* startRecording or downloadMp4 through the ref: recordAnimation is the
\* one of the render the handle was built in.
CallThroughHandle ==
    /\ snap.stage = "mounted"
    /\ snap.sessions["export"].stage = "free"
    /\ snap' = [snap EXCEPT
            !.sessions = [@ EXCEPT !["export"] =
                NewSnapshotSession(
                    ImperativeHandleProps(snap.props, snap.first))]]
    /\ UNCHANGED <<recordingVars, frame, layers, labelPass, fileName, form,
                   tick, layout,
                   wmark,
                   preload>>

\* animate of session s: frame number frames + 1 of MaxSnapFrames, the last
\* one with progress = 1; it reads the snapshot and places the airplane.
SnapshotFrame(s) ==
    /\ snap.stage = "mounted"
    /\ snap.sessions[s].stage = "running"
    /\ LET sess == snap.sessions[s]
           shot == sess.snapshot
           n == sess.frames + 1
           pr == ToFloat(n) \div MaxSnapFrames
       IN  snap' = [snap EXCEPT !.sessions = [@ EXCEPT ![s] =
                [sess EXCEPT
                    !.frames = n,
                    !.stage = IF n < MaxSnapFrames THEN "running"
                              ELSE "finished",
                    !.plane = Airplane(shot.calculatedPoints, shot.segments,
                                       FMul(shot.totalLength, pr), 1,
                                       [x |-> shot.calculatedPoints[1].x,
                                        y |-> shot.calculatedPoints[1].y,
                                        angle |-> ZeroAngle,
                                        division |-> <<>>])]]]
    /\ UNCHANGED <<recordingVars, frame, layers, labelPass, fileName, form,
                   tick, layout,
                   wmark,
                   preload>>

\* The closure of a finished session is released.
ReleaseSnapshot(s) ==
    /\ snap.stage = "mounted"
    /\ snap.sessions[s].stage = "finished"
    /\ snap' = [snap EXCEPT !.sessions = [@ EXCEPT ![s] = NoSnapshotSession]]
    /\ UNCHANGED <<recordingVars, frame, layers, labelPass, fileName, form,
                   tick, layout,
                   wmark,
                   preload>>

\* The canvas mounts with the first generated configuration; its effect
\* starts the first preview.
SnapshotInit ==
    /\ RecordingInit
    /\ \E props \in PropsInputs :
            snap = [stage |-> "mounted", props |-> props, first |-> props,
                    sessions |-> [s \in {"preview", "export"} |->
                        IF s = "preview" THEN NewSnapshotSession(props)
                        ELSE NoSnapshotSession]]
    /\ frame = Idle
    /\ layers = Idle
    /\ labelPass = Idle
    /\ fileName = Idle
    /\ form = Idle
    /\ tick = Idle
    /\ layout = Idle
    /\ wmark = Idle
    /\ preload = Idle

SnapshotNext ==
    \/ \E props \in PropsInputs : RenderWithProps(props)
    \/ CallThroughHandle
    \/ \E s \in {"preview", "export"} : SnapshotFrame(s)
    \/ \E s \in {"preview", "export"} : ReleaseSnapshot(s)

SnapshotSpec == SnapshotInit /\ [][SnapshotNext]_vars

\* ------------------------------------------------ the watermark image cache
\* Data URLs of uploaded images; "" is no URL and, for the cache, no image.
ImageUrlInputs == {"data:a", "data:b"}

\* useState<WatermarkConfig> of the layout (the fields that decide which
\* image is drawn).
InitialWatermark == [enabled |-> FALSE, type |-> "image", imageUrl |-> ""]

\* The enable checkbox of the settings.
SetWatermarkEnabled(checked) ==
    /\ wmark.settings.enabled # checked
    /\ wmark' = [wmark EXCEPT !.settings.enabled = checked]
    /\ UNCHANGED <<recordingVars, frame, layers, labelPass, fileName, form,
                   tick, layout, snap,
                   preload>>

\* The type select: imageUrl: value === "image" ? watermark.imageUrl : ""
SelectWatermarkType(value) ==
    /\ wmark.settings.enabled
    /\ wmark.settings.type # value
    /\ wmark' = [wmark EXCEPT
            !.settings.type = value,
            !.settings.imageUrl = IF value = "image" THEN @ ELSE ""]
    /\ UNCHANGED <<recordingVars, frame, layers, labelPass, fileName, form,
                   tick, layout, snap,
                   preload>>

\* The file input of the image watermark: reader.onload sets imageUrl.
UploadWatermarkImage(url) ==
    /\ wmark.settings.enabled
    /\ wmark.settings.type = "image"
    /\ wmark.settings.imageUrl # url
    /\ wmark' = [wmark EXCEPT !.settings.imageUrl = url]
    /\ UNCHANGED <<recordingVars, frame, layers, labelPass, fileName, form,
                   tick, layout, snap,
                   preload>>

\* The remove button, shown while imageUrl is not empty.
RemoveWatermarkImage ==
    /\ wmark.settings.enabled
    /\ wmark.settings.type = "image"
    /\ wmark.settings.imageUrl # ""
    /\ wmark' = [wmark EXCEPT !.settings.imageUrl = ""]
    /\ UNCHANGED <<recordingVars, frame, layers, labelPass, fileName, form,
                   tick, layout, snap,
                   preload>>

\* The effect on [watermark]: an image is created for a configuration of
\* type image with a URL; otherwise watermarkImageRef.current is left alone.
Preload(ref, watermark) ==
    IF watermark.type = "image" /\ watermark.imageUrl # ""
    THEN watermark.imageUrl ELSE ref

\* Generate: the canvas renders with the watermark of the settings, its
\* effect preloads the image, its next frames are those of a new session.
GenerateWithWatermark ==
    /\ wmark.stage \in {"settings", "mounted", "drawn"}
    /\ wmark' = [wmark EXCEPT
            !.stage = "mounted",
            !.prop = wmark.settings,
            !.ref = Preload(wmark.ref, wmark.settings),
            !.drawn = ""]
    /\ UNCHANGED <<recordingVars, frame, layers, labelPass, fileName, form,
                   tick, layout, snap,
                   preload>>

\* A frame: if (watermark.type === "image" && watermarkImageRef.current)
\* ctx.drawImage(img, ...), under watermark?.enabled.  drawImage draws
\* nothing while the image is not decoded.
WatermarkFrame(decoded) ==
    /\ wmark.stage \in {"mounted", "drawn"}
    /\ wmark' = [wmark EXCEPT
            !.stage = "drawn",
            !.drawn = IF /\ wmark.prop.enabled
                         /\ wmark.prop.type = "image"
                         /\ wmark.ref # ""
                         /\ decoded
                      THEN wmark.ref ELSE ""]
    /\ UNCHANGED <<recordingVars, frame, layers, labelPass, fileName, form,
                   tick, layout, snap,
                   preload>>

WatermarkInit ==
    /\ RecordingInit
    /\ wmark = [stage |-> "settings", settings |-> InitialWatermark,
                prop |-> InitialWatermark, ref |-> "", drawn |-> ""]
    /\ frame = Idle
    /\ layers = Idle
    /\ labelPass = Idle
    /\ fileName = Idle
    /\ form = Idle
    /\ tick = Idle
    /\ layout = Idle
    /\ snap = Idle
    /\ preload = Idle

WatermarkNext ==
    \/ \E checked \in BOOLEAN : SetWatermarkEnabled(checked)
    \/ \E value \in {"image", "text"} : SelectWatermarkType(value)
    \/ \E url \in ImageUrlInputs : UploadWatermarkImage(url)
    \/ RemoveWatermarkImage
    \/ GenerateWithWatermark
    \/ \E decoded \in BOOLEAN : WatermarkFrame(decoded)

WatermarkSpec == WatermarkInit /\ [][WatermarkNext]_vars

\* --------------------------------- the watermark image and the layout
\* The canvas mounts with an enabled image watermark.  natural is the size
\* the image of watermark.imageUrl has once it is decoded; until then the
\* naturalWidth and naturalHeight of the element are 0.
PreloadWatermarkInputs ==
    [enabled : {TRUE}, type : {"image"}, text : {FALSE},
     position : WatermarkPositions, sizeRatio : SizeRatioInputs,
     margin : {Cpx(60)}]

NaturalSizeInputs ==
    {[naturalWidth |-> 200, naturalHeight |-> 100],
     [naturalWidth |-> 100, naturalHeight |-> 300]}

NotStarted == [started |-> FALSE, reserved |-> 0, drewImage |-> FALSE]

PreloadInputs ==
    [stage : {"props"}, aspectRatio : DOMAIN ratioMap,
     watermark : PreloadWatermarkInputs, natural : NaturalSizeInputs,
     image : {"none"},
     sessions : {[s \in {"preview", "export"} |-> NotStarted]}]

\* watermarkImageRef.current as recordAnimation and animate see it.
ImageElement(p) ==
    IF p.image = "loaded" THEN p.natural
    ELSE [naturalWidth |-> 0, naturalHeight |-> 0]

\* recordAnimation precalculates the watermark size from the image element
\* as it is when the call is made.
ReserveHeight(p) ==
    [started |-> TRUE,
     reserved |-> wmHeight(p.watermark, ratioMap[p.aspectRatio].width,
                           ImageElement(p)),
     drewImage |-> FALSE]

\* The effects of the commit, in the order of their declaration: the
\* watermark effect creates the image and sets its src, then the preview
\* effect calls recordAnimation(false).  available: the image is in the
\* browser's list of available images and is complete at once; otherwise
\* it is decoded later.
CommitEffects(available) ==
    /\ preload.stage = "props"
    /\ LET created == [preload EXCEPT
                !.stage = "mounted",
                !.image = IF available THEN "loaded" ELSE "loading"]
       IN  preload' = [created EXCEPT
                !.sessions["preview"] = ReserveHeight(created)]
    /\ UNCHANGED <<recordingVars, frame, layers, labelPass, fileName, form,
                   tick, layout, snap, wmark>>

\* The image is decoded.
WatermarkImageLoaded ==
    /\ preload.stage = "mounted"
    /\ preload.image = "loading"
    /\ preload' = [preload EXCEPT !.image = "loaded"]
    /\ UNCHANGED <<recordingVars, frame, layers, labelPass, fileName, form,
                   tick, layout, snap, wmark>>

\* startRecording or downloadMp4 calls recordAnimation.
ExportReservesHeight ==
    /\ preload.stage = "mounted"
    /\ ~preload.sessions["export"].started
    /\ preload' = [preload EXCEPT !.sessions["export"] = ReserveHeight(preload)]
    /\ UNCHANGED <<recordingVars, frame, layers, labelPass, fileName, form,
                   tick, layout, snap, wmark>>

\* A frame of session s: ctx.drawImage(img, ...) draws the image once it is
\* decoded and nothing before.
FrameDrawsWatermark(s) ==
    /\ preload.stage = "mounted"
    /\ preload.sessions[s].started
    /\ ~preload.sessions[s].drewImage
    /\ preload.image = "loaded"
    /\ preload' = [preload EXCEPT !.sessions[s].drewImage = TRUE]
    /\ UNCHANGED <<recordingVars, frame, layers, labelPass, fileName, form,
                   tick, layout, snap, wmark>>

PreloadInit ==
    /\ RecordingInit
    /\ preload \in PreloadInputs
    /\ frame = Idle
    /\ layers = Idle
    /\ labelPass = Idle
    /\ fileName = Idle
    /\ form = Idle
    /\ tick = Idle
    /\ layout = Idle
    /\ snap = Idle
    /\ wmark = Idle

PreloadNext ==
    \/ \E available \in BOOLEAN : CommitEffects(available)
    \/ WatermarkImageLoaded
    \/ ExportReservesHeight
    \/ \E s \in {"preview", "export"} : FrameDrawsWatermark(s)

PreloadSpec == PreloadInit /\ [][PreloadNext]_vars

\* ---------------------------------------------------------- specification

Next ==
    \/ \E d \in DurationInputs : handleGenerate(d)
    \/ setAudioFile
    \/ DownloadWebmClick
    \/ DownloadMp4Click
    \/ \E s \in Slots, captureOk \in BOOLEAN : PlaneImageOnload(s, captureOk)
    \/ \E s \in Slots : PlaneImageError(s)
    \/ \E skip \in 1..MaxFrameSkip : DisplayFrame(skip)
    \/ \E s \in Slots : StopTimerFired(s)
    \/ \E s \in Slots : RecorderOnStop(s)
    \/ \E s \in Slots, ok \in BOOLEAN : FfmpegLoadDone(s, ok)
    \/ \E s \in Slots, ok \in BOOLEAN : WriteInputDone(s, ok)
    \/ \E s \in Slots, ok \in BOOLEAN : WriteAudioDone(s, ok)
    \/ \E s \in Slots, outcome \in ExecOutcomes,
          audioMs \in AudioLengths \cup {0} : ExecDone(s, outcome, audioMs)
    \/ \E s \in Slots, ok \in BOOLEAN : ReadFileDone(s, ok)

Spec == Init /\ [][Next]_vars

\* The step that the browser or the engine owes session s: its due stop
\* timer, its queued recorder events, the settling of its awaited engine
\* call.  At most one of them is enabled at a time.
SessionStep(s) ==
    \/ StopTimerFired(s)
    \/ RecorderOnStop(s)
    \/ \E ok \in BOOLEAN : FfmpegLoadDone(s, ok)
    \/ \E ok \in BOOLEAN : WriteInputDone(s, ok)
    \/ \E ok \in BOOLEAN : WriteAudioDone(s, ok)
    \/ \E outcome \in ExecOutcomes, audioMs \in AudioLengths \cup {0} :
            ExecDone(s, outcome, audioMs)
    \/ \E ok \in BOOLEAN : ReadFileDone(s, ok)

\* The clock keeps advancing, frame callbacks keep firing, due timers and
\* queued events are dispatched and every awaited engine call settles.
Fairness ==
    /\ WF_vars(\E skip \in 1..MaxFrameSkip : DisplayFrame(skip))
    /\ \A s \in Slots : WF_vars(SessionStep(s))

FairSpec == Spec /\ Fairness

\* ------------------------------------------------------------------ claims

Live == {s \in Slots : sessions[s].origin # "free"}
Exports == {s \in Slots : sessions[s].origin \in {"startRecording", "downloadMp4"}}
Mp4Exports == {s \in Slots : sessions[s].origin = "downloadMp4"}

\* C1: in every session the recorder has been started before any frame of
\* the session is drawn.
C1_RecorderStartedBeforeFirstFrame ==
    \A s \in Live : sessions[s].drawn => sessions[s].starts > 0

\* A running session has drawn a frame with progress < 1.
C1_Witness ==
    \E s \in Live :
        /\ sessions[s].drawn
        /\ sessions[s].recorder = "recording"
        /\ sessions[s].progressMs < sessions[s].animationDuration

\* C2: recorder.stop is issued only after a frame with progress = 1 has been
\* drawn and the grace delay has elapsed since that frame.
C2_StopOnlyAfterFinalFrameAndDelay ==
    \A s \in Live :
        sessions[s].stops > 0 =>
            /\ sessions[s].progressMs = sessions[s].animationDuration
            /\ sessions[s].graceElapsed >= GraceDelayMs

\* A session whose recorder has been stopped.
C2_Witness ==
    \E s \in Live :
        /\ sessions[s].stops = 1
        /\ sessions[s].recorder = "inactive"
        /\ sessions[s].stopTimer = "fired"

\* C3: with frames that keep firing and a clock that keeps advancing, every
\* session whose recorder is recording eventually has drawn the frame with
\* progress = 1, stopped its recorder and resolved its promise.
C3_RunningSessionCompletes ==
    \A s \in Slots :
        (sessions[s].recorder = "recording")
            ~> (/\ sessions[s].promise = "resolved"
                /\ sessions[s].stops = 1
                /\ sessions[s].progressMs = sessions[s].animationDuration)

\* A session that ran to completion.
C3_Witness ==
    \E s \in Live :
        /\ sessions[s].promise = "resolved"
        /\ sessions[s].chunks = 1
        /\ sessions[s].progressMs = sessions[s].animationDuration

\* C4: once the stop event has been handled the promise is resolved whatever
\* the download flag; the raw download has been triggered exactly when the
\* flag is set, hence never by a preview or a downloadMp4 recording.
C4_RawDownloadIffFlag ==
    \A s \in Live :
        /\ (sessions[s].stops > 0 /\ sessions[s].events = "none")
                => sessions[s].promise = "resolved"
        /\ sessions[s].promise = "resolved"
                => (sessions[s].rawDownloaded <=> sessions[s].downloadWebm)
        /\ sessions[s].rawDownloaded => sessions[s].origin = "startRecording"
        /\ sessions[s].origin \in {"preview", "downloadMp4"}
                => ~sessions[s].downloadWebm

\* A startRecording session resolved with its raw download triggered.
C4_Witness ==
    \E s \in Live :
        /\ sessions[s].origin = "startRecording"
        /\ sessions[s].promise = "resolved"
        /\ sessions[s].rawDownloaded

\* C5: at most one recording session is active at any time.
C5_AtMostOneActiveSession ==
    Cardinality({s \in Live : sessions[s].recorder = "recording"}) <= 1

\* C6: a session whose marker icon failed to load eventually has its promise
\* settled with a failure.
C6_IconFailureRejects ==
    \A s \in Slots :
        (sessions[s].icon = "failed") ~> (sessions[s].promise = "rejected")

\* C7: a session whose capture stream or recorder could not be constructed
\* has its promise rejected.
C7_CaptureFailureRejects ==
    \A s \in Live :
        sessions[s].captureThrew => sessions[s].promise = "rejected"

\* C8: a downloadMp4 call in which load, a write, exec or the read-back
\* failed ends with exactly one failure notification and no MP4 download; a
\* call that triggered a download had every stage succeed and shows exactly
\* one success notification.
C8_NoDownloadOnFailure ==
    \A s \in Mp4Exports :
        LET sess == sessions[s]
            stageFailed == sess.failedStage # "none" \/ sess.execRet > 0
        IN
        /\ (sess.pc = "returned" /\ stageFailed)
                => (sess.errorToasts = 1 /\ sess.mp4Downloaded = 0)
        /\ sess.mp4Downloaded # 0
                => (/\ ~stageFailed
                    /\ sess.successToasts = 1
                    /\ sess.errorToasts = 0)

\* C9: after a failed export attempt the export controls become enabled
\* again.
C9_ControlsReenabledAfterFailure ==
    \A s \in Slots :
        (/\ sessions[s].origin \in {"startRecording", "downloadMp4"}
         /\ \/ sessions[s].icon = "failed"
            \/ sessions[s].captureThrew
            \/ sessions[s].failedStage # "none")
            ~> (~isRecording /\ ~isConverting)

\* C10: ffmpeg.load() is in flight only for a downloadMp4 call in progress
\* and only while the engine is not loaded; a loaded engine stays loaded, so
\* no load follows a successful one.
C10_LoadLazilyAndOnce ==
    /\ [](\A s \in Slots :
            sessions[s].pc = "load" =>
                /\ sessions[s].origin = "downloadMp4"
                /\ isConverting
                /\ ~ffmpeg.loaded)
    /\ [][ffmpeg.loaded => ffmpeg.loaded']_vars

\* A later downloadMp4 call (an earlier call's output.mp4 exists) has passed
\* the load check without loading.
C10_Witness ==
    \E s \in Mp4Exports :
        /\ sessions[s].pc = "writeInput"
        /\ ffmpeg.loaded
        /\ ffmpeg.output # 0

\* The order of the stages of one downloadMp4 call, as pairs of consecutive
\* positions: every stage may also end the call through the catch block.
C11_StageOrder ==
    {<<"recordAnimation", "load">>, <<"recordAnimation", "writeInput">>,
     <<"load", "writeInput">>, <<"writeInput", "writeAudio">>,
     <<"writeInput", "exec">>, <<"writeAudio", "exec">>,
     <<"exec", "readFile">>, <<"readFile", "returned">>,
     <<"returned", "recordAnimation">>}
        \cup {<<stage, "returned">> :
                 stage \in {"load", "writeInput", "writeAudio", "exec"}}

\* C11: a downloadMp4 call moves through record, load (only when the engine
\* is not loaded), write input, write audio (only when an audio file is
\* attached), exec, read output, download, in this order.  With an audio
\* file the audio has been written when exec is called, exec gets the
\* two-input command and its output is as long as the shorter of video and
\* audio; without one no audio is written and exec gets the video-only
\* command, whose output is as long as the video.
C11_StagesInOrderAndCommand ==
    /\ [](\A s \in Mp4Exports :
            LET sess == sessions[s] IN
            /\ sess.pc \in {"exec", "readFile"} =>
                    /\ sess.audioWritten = sess.audio
                    /\ sess.execArgs = IF sess.audio THEN MuxCommand
                                       ELSE VideoOnlyCommand
                    /\ "input.webm" \in ExecInputs(sess.execArgs)
                    /\ sess.audio <=> "audio" \in ExecInputs(sess.execArgs)
            /\ sess.execRet = 0 =>
                    sess.outDuration = IF sess.audio
                                       THEN Min(sess.span, sess.audioMs)
                                       ELSE sess.span
            /\ sess.mp4Downloaded # 0 => sess.execArgs # <<>>)
    /\ [][\A s \in Slots :
            (/\ sessions[s].origin = "downloadMp4"
             /\ sessions'[s].origin = "downloadMp4"
             /\ sessions'[s].pc # sessions[s].pc)
                => /\ <<sessions[s].pc, sessions'[s].pc>> \in C11_StageOrder
                   /\ sessions'[s].pc = "load" => ~ffmpeg.loaded
                   /\ sessions'[s].pc = "writeAudio" => sessions[s].audio]_vars

\* A call with an audio file shorter than the video went through every
\* stage and downloaded an output truncated to the length of the audio.
C11_Witness ==
    \E s \in Mp4Exports :
        /\ sessions[s].pc = "returned"
        /\ sessions[s].audioWritten
        /\ sessions[s].mp4Downloaded = sessions[s].callId
        /\ sessions[s].callId # 0
        /\ sessions[s].outDuration = sessions[s].audioMs
        /\ sessions[s].audioMs < sessions[s].span

EngineStages == {"load", "writeInput", "writeAudio", "exec", "readFile"}

\* C12: at most one downloadMp4 call is in progress and at most one engine
\* call (load, writeFile, exec, readFile) is in flight at any time.
C12_EngineNeverConcurrent ==
    /\ Cardinality({s \in Mp4Exports : sessions[s].pc # "returned"}) <= 1
    /\ Cardinality({s \in Slots : sessions[s].pc \in EngineStages}) <= 1

\* An engine call of an export is in flight, the buttons are disabled and
\* a preview recording runs next to it.
C12_Witness ==
    /\ ButtonsDisabled
    /\ \E s \in Mp4Exports : sessions[s].pc \in EngineStages
    /\ \E s \in Live : /\ sessions[s].origin = "preview"
                        /\ sessions[s].recorder = "recording"

\* C19: the span a session recorded, from recorder.start() to
\* recorder.stop(), differs from the configured duration by at most one
\* frame interval.
C19_SpanWithinOneFrameOfDuration ==
    \A s \in Live :
        sessions[s].stops > 0 =>
            /\ sessions[s].span <= sessions[s].animationDuration
                                        + FrameIntervalMs
            /\ sessions[s].span >= sessions[s].animationDuration
                                        - FrameIntervalMs

StrictlyIncreasingTimes(points) ==
    \A i, j \in DOMAIN points :
        i < j => Minutes(points[i].time) < Minutes(points[j].time)

\* C13: for points with strictly increasing times totalLength is the sum
\* of the lengths of the segments between consecutive computed points, and
\* at progress = 1 the airplane is placed exactly on the last computed
\* point.
C13_AirplaneLandsOnLastPoint ==
    (/\ frame.stage = "airplane"
     /\ StrictlyIncreasingTimes(frame.points)
     /\ frame.progress = FloatScale)
        => LET cp == frame.calculatedPoints
               last == cp[Len(cp)]
           IN  /\ frame.totalLength
                    = totalLength(segments(cp), Len(cp) - 1)
               /\ frame.plane.x = last.x
               /\ frame.plane.y = last.y

\* C14: once the data is scaled, points whose times are all equal have all
\* received the same x-coordinate and points whose values are all equal
\* have all received the same y-coordinate, and these are numbers.
C14_DegenerateRangesFallBack ==
    frame.stage \in {"scaled", "path", "airplane"} =>
        LET pts == frame.points
            cp == frame.calculatedPoints
        IN  /\ (\A i, j \in DOMAIN pts : pts[i].time = pts[j].time)
                    => \A i, j \in DOMAIN cp :
                            cp[i].x = cp[j].x /\ cp[i].x # NaN
            /\ (\A i, j \in DOMAIN pts : pts[i].value = pts[j].value)
                    => \A i, j \in DOMAIN cp :
                            cp[i].y = cp[j].y /\ cp[i].y # NaN

\* Scaled points whose times are all equal while their values differ.
C14_Witness ==
    /\ frame.stage = "scaled"
    /\ \A i, j \in DOMAIN frame.points :
            frame.points[i].time = frame.points[j].time
    /\ \E i, j \in DOMAIN frame.points :
            frame.points[i].value # frame.points[j].value
    /\ \A i \in DOMAIN frame.calculatedPoints :
            frame.calculatedPoints[i].x = ToFloat(ChartLeft)

\* C17: every stroke of the travelled path has the increase colour when
\* the value at the end of its segment is greater than or equal to the
\* value at its start and the decrease colour when it is less; the values
\* 10, 15, 8 are drawn as an increase followed by a decrease.
C17_SegmentColourRule ==
    frame.stage \in {"path", "airplane"} =>
        /\ \A k \in DOMAIN frame.strokes :
                LET i == frame.strokes[k].segment
                    from == frame.points[i].value
                    to == frame.points[i + 1].value
                IN  /\ to >= from =>
                            frame.strokes[k].strokeStyle = IncreaseColour
                    /\ to < from =>
                            frame.strokes[k].strokeStyle = DecreaseColour
        /\ (/\ [i \in DOMAIN frame.points |-> frame.points[i].value]
                    = <<10, 15, 8>>
            /\ frame.progress = FloatScale)
                => [k \in DOMAIN frame.strokes |->
                        frame.strokes[k].strokeStyle]
                            = <<IncreaseColour, DecreaseColour>>

\* The path of the values 10, 15, 8 drawn to its end.
C17_Witness ==
    /\ frame.stage = "path"
    /\ [i \in DOMAIN frame.points |-> frame.points[i].value] = <<10, 15, 8>>
    /\ StrictlyIncreasingTimes(frame.points)
    /\ frame.progress = FloatScale
    /\ Len(frame.strokes) = 2

\* The position of a drawing call in the order of the layers.
C20_LayerRank(call) ==
    CASE call.layer = "background" -> 1
      [] call.layer = "watermark" /\ call.anchor = "top" -> 2
      [] call.layer \in {"title", "description"} -> 3
      [] call.layer = "path" -> 4
      [] call.layer = "marker" -> 5
      [] call.layer = "label" -> 6
      [] call.layer = "airplane" -> 7
      [] OTHER -> 8

\* C20: the drawing calls of a frame come in the order background, top
\* watermark, title and description, path, point markers, labels, airplane,
\* bottom watermark: no call of an earlier layer follows a call of a later
\* one; there is one marker for every point whatever the progress.
C20_LayersInFixedOrder ==
    layers.stage = "drawn" =>
        /\ \A i, j \in DOMAIN layers.calls :
                i < j => C20_LayerRank(layers.calls[i])
                            <= C20_LayerRank(layers.calls[j])
        /\ Cardinality({i \in DOMAIN layers.calls :
                            layers.calls[i].layer = "marker"})
                = layers.points

\* C15 as stated: no two placed boxes overlap, and of two points whose
\* unadjusted boxes overlap the later one's box lies entirely below the
\* earlier one's.
C15_LaterBoxBelowEarlier ==
    labelPass.stage = "placed" =>
        LET pts == labelPass.points
            n == Len(pts)
            placed == labelPass.placedLabels
        IN  \A i, j \in 1..n :
                i < j =>
                    /\ ~overlaps(placed[i], placed[j])
                    /\ overlaps(UnadjustedBox(pts[i], i, n),
                                UnadjustedBox(pts[j], j, n))
                            => placed[j].top >= placed[i].bottom

\* C15, amended: no two placed boxes overlap; every box is at its
\* unadjusted place or has been moved down to just below a box placed
\* before it that it would overlap there.
C15_NoPlacedBoxesOverlap ==
    labelPass.stage = "placed" =>
        LET pts == labelPass.points
            n == Len(pts)
            placed == labelPass.placedLabels
        IN  \A j \in 1..n :
                LET unadjusted == UnadjustedBox(pts[j], j, n) IN
                /\ \A i \in 1..(j - 1) : ~overlaps(placed[i], placed[j])
                /\ placed[j].left = unadjusted.left
                /\ placed[j].right = unadjusted.right
                /\ placed[j].bottom - placed[j].top
                        = unadjusted.bottom - unadjusted.top
                /\ \/ placed[j].top = unadjusted.top
                   \/ \E i \in 1..(j - 1) :
                        /\ placed[j].top
                                = placed[i].bottom + Px(LabelSpacing)
                        /\ placed[j].top > unadjusted.top
                        /\ placed[i].left < placed[j].right
                        /\ placed[j].left < placed[i].right

\* Three labels whose unadjusted boxes all overlap one another have been
\* placed one below the other.
C15_Witness ==
    /\ labelPass.stage = "placed"
    /\ Len(labelPass.points) >= 3
    /\ LET pts == labelPass.points
           n == Len(pts)
           placed == labelPass.placedLabels
       IN  /\ \A i, j \in 1..3 :
                overlaps(UnadjustedBox(pts[i], i, n),
                         UnadjustedBox(pts[j], j, n))
           /\ placed[2].top >= placed[1].bottom
           /\ placed[3].top >= placed[2].bottom

\* The maximal runs of alphanumeric characters of str from position i on,
\* word being the run that ends before position i.
RECURSIVE C16_Words(_, _, _)
C16_Words(str, i, word) ==
    IF i > Len(str) THEN (IF word = <<>> THEN <<>> ELSE <<word>>)
    ELSE IF IsAlphanumeric(str[i])
         THEN C16_Words(str, i + 1, Append(word, str[i]))
         ELSE (IF word = <<>> THEN <<>> ELSE <<word>>)
                \o C16_Words(str, i + 1, <<>>)

\* The words joined by single hyphens.
RECURSIVE C16_Joined(_)
C16_Joined(words) ==
    IF words = <<>> THEN <<>>
    ELSE IF Len(words) = 1 THEN words[1]
    ELSE words[1] \o <<"-">> \o C16_Joined(Tail(words))

\* Two decimal digits of n < 100.
C16_TwoDigits(n) == <<Digits[(n \div 10) + 1], Digits[(n % 10) + 1]>>

\* C16: the file name is prefix-YYYY-MM-DD_HH-mm-ss.ext; the prefix is
\* made of the lowercased alphanumeric words of the title joined by single
\* hyphens, without hyphens at its ends ("My Trip!" gives my-trip), and is
\* the default prefix for the empty title; nothing but title, timestamp
\* and extension enters the name.
C16_FileNameFormat ==
    fileName.stage = "named" =>
        LET now == fileName.now
            prefix == IF fileName.title = <<>> THEN DefaultTitle
                      ELSE C16_Joined(
                               C16_Words(toLowerCase(fileName.title), 1, <<>>))
            stamp == <<Digits[(now.fullYear \div 1000) + 1],
                       Digits[((now.fullYear \div 100) % 10) + 1],
                       Digits[((now.fullYear \div 10) % 10) + 1],
                       Digits[(now.fullYear % 10) + 1], "-">>
                     \o C16_TwoDigits(now.month + 1) \o <<"-">>
                     \o C16_TwoDigits(now.date) \o <<"_">>
                     \o C16_TwoDigits(now.hours) \o <<"-">>
                     \o C16_TwoDigits(now.minutes) \o <<"-">>
                     \o C16_TwoDigits(now.seconds)
        IN  /\ fileName.name = prefix \o <<"-">> \o stamp \o <<".">>
                                    \o fileName.ext
            /\ \A i \in DOMAIN prefix :
                    prefix[i] \in Chars(LowerCase) \cup Chars(Digits) \cup {"-"}
            /\ prefix # <<>> => prefix[1] # "-" /\ prefix[Len(prefix)] # "-"
            /\ fileName.title = MyTrip
                    => prefix = <<"m", "y", "-", "t", "r", "i", "p">>

\* The file name of a download with the title "My Trip!".
C16_Witness ==
    /\ fileName.stage = "named"
    /\ fileName.title = MyTrip
    /\ SubSeq(fileName.name, 1, 8) = <<"m", "y", "-", "t", "r", "i", "p", "-">>
    /\ Len(fileName.name) = 8 + 19 + 1 + Len(fileName.ext)

\* C18: after any sequence of form operations, the point sequence that
\* Generate hands to the canvas has strictly increasing times.
C18_HandedPointsAreOrdered ==
    form.stage = "form" /\ form.handed # <<>> =>
        /\ \A i \in DOMAIN form.handed : form.handed[i].time # NoTime
        /\ StrictlyIncreasingTimes(form.handed)

\* The positions of the watermark calls among the drawing calls of a frame.
C21_WatermarkCalls ==
    {i \in DOMAIN layers.calls : layers.calls[i].layer = "watermark"}

\* C21: an enabled watermark that has something to draw is drawn exactly
\* once per frame: before the header text and not in the final layer when
\* it is anchored at the top, after the airplane when it is anchored at the
\* bottom; a disabled or absent watermark is never drawn.
C21_WatermarkDrawnOnceInItsLayer ==
    layers.stage = "drawn" =>
        LET watermark == layers.watermark
            calls == layers.calls
            header == {i \in DOMAIN calls :
                          calls[i].layer \in {"title", "description"}}
            airplane == {i \in DOMAIN calls : calls[i].layer = "airplane"}
        IN  /\ ~(watermark.present /\ watermark.enabled)
                    => C21_WatermarkCalls = {}
            /\ watermark.present /\ watermark.enabled /\ watermark.content
                    => /\ Cardinality(C21_WatermarkCalls) = 1
                       /\ StartsWithTop(watermark.position)
                            => \A i \in C21_WatermarkCalls :
                                  /\ \A j \in header : i < j
                                  /\ \A j \in airplane : i < j
                       /\ StartsWithBottom(watermark.position)
                            => \A i \in C21_WatermarkCalls :
                                  \A j \in airplane : j < i

\* C22: in every frame the airplane is at the end of the path stroked in
\* that frame (at the first point when nothing is stroked), and its angle
\* is the direction of the segment it is on: the last segment stroked, or
\* the first segment when nothing is stroked.
C22_AirplaneAtLeadingEdge ==
    (/\ frame.stage = "airplane"
     /\ Len(frame.points) > 1
     /\ StrictlyIncreasingTimes(frame.points))
        => LET cp == frame.calculatedPoints
               strokes == frame.strokes
               on == IF strokes = <<>> THEN 1
                     ELSE strokes[Len(strokes)].segment
               edge == IF strokes = <<>> THEN [x |-> cp[1].x, y |-> cp[1].y]
                       ELSE strokes[Len(strokes)].lineTo
           IN  /\ frame.plane.x = edge.x
               /\ frame.plane.y = edge.y
               /\ SameAngle(frame.plane.angle,
                            atan2(FSub(cp[on + 1].y, cp[on].y),
                                  FSub(cp[on + 1].x, cp[on].x)))

\* C23: the progress of a frame is (now - startTime) / animationDuration
\* clamped to [0, 1]: never below 0 and never above 1, also for a timestamp
\* that precedes the start time.
C23_ProgressClamped ==
    tick.stage = "computed" =>
        LET sinceStart == tick.now - tick.startTime
        IN  /\ tick.progressMs >= 0
            /\ tick.progressMs <= tick.animationDuration
            /\ tick.progressMs
                    = IF sinceStart < 0 THEN 0
                      ELSE IF sinceStart > tick.animationDuration
                           THEN tick.animationDuration
                           ELSE sinceStart

\* C24: within a session every frame has a greater progress than the frame
\* before it; a frame is drawn only while no frame with progress = 1 has
\* been drawn; the frame with progress = 1 requests no further frame (so it
\* is the last one and the only one with progress = 1), every other frame
\* requests the next one.
C24_FramesInIncreasingProgress ==
    /\ [](\A s \in Live :
            sessions[s].progressMs = sessions[s].animationDuration
                => ~sessions[s].raf)
    /\ [][\A s \in Slots :
            (Alive[s].raf /\ \E skip \in 1..MaxFrameSkip : DisplayFrame(skip))
                => /\ Alive[s].drawn
                        => sessions'[s].progressMs > Alive[s].progressMs
                   /\ Alive[s].progressMs < Alive[s].animationDuration
                   /\ sessions'[s].drawn
                   /\ sessions'[s].raf
                        = (sessions'[s].progressMs
                                < sessions'[s].animationDuration)]_vars

\* A session whose last frame, with progress = 1, has been drawn after
\* earlier frames and has requested no further frame.
C24_Witness ==
    \E s \in Live :
        /\ sessions[s].drawn
        /\ sessions[s].progressMs = sessions[s].animationDuration
        /\ sessions[s].animationDuration > MaxFrameSkip * FrameIntervalMs
        /\ ~sessions[s].raf
        /\ sessions[s].stopTimer = "armed"

\* The divisions remaining / seg of a drawn frame: those of the path loop
\* and that of the airplane loop.
C25_Divisions ==
    ({frame.strokes[i].division : i \in DOMAIN frame.strokes}
        \cup {frame.plane.division}) \ {<<>>}

\* C25: a sequence of one point has no segments and totalLength = 0, and
\* its frames are drawn to the end: nothing is stroked and the airplane is
\* on the point.  In every frame, whatever the points, remaining / seg is
\* computed only with 0 < remaining < seg, so the divisor is never zero and
\* the ratio is below 1; a segment of length zero is passed over as
\* travelled; no coordinate drawn is NaN.
C25_NoDivisionByZero ==
    /\ (frame.stage \in {"scaled", "path", "airplane"}
            /\ Len(frame.points) = 1)
        => /\ frame.segments = <<>>
           /\ frame.totalLength = 0
    /\ frame.stage = "airplane" =>
        /\ Len(frame.points) = 1
            => /\ frame.strokes = <<>>
               /\ frame.plane.x = frame.calculatedPoints[1].x
               /\ frame.plane.y = frame.calculatedPoints[1].y
        /\ \A d \in C25_Divisions :
                /\ 0 < d[1]
                /\ d[1] < d[2]
                /\ FDiv(d[1], d[2]) >= 0
                /\ FDiv(d[1], d[2]) < FloatScale
        /\ \A i \in DOMAIN frame.strokes :
                /\ frame.strokes[i].lineTo.x # NaN
                /\ frame.strokes[i].lineTo.y # NaN
                /\ frame.segments[frame.strokes[i].segment] = 0
                        => frame.strokes[i].division = <<>>
        /\ frame.plane.x # NaN
        /\ frame.plane.y # NaN

\* A drawn frame of a sequence of one point.
C25_Witness ==
    /\ frame.stage = "airplane"
    /\ Len(frame.points) = 1
    /\ frame.progress = FloatScale \div 2

\* A drawn frame that passed over a segment of length zero and divided on
\* the segment after it.
C25_WitnessZeroLength ==
    /\ frame.stage = "airplane"
    /\ Len(frame.strokes) > 1
    /\ frame.segments[1] = 0
    /\ frame.plane.division # <<>>

\* C26: in every supported configuration a point with a larger value is
\* rendered higher: value_i > value_j implies y_i < y_j.
C26_LargerValueHigher ==
    layout.stage = "scaled" =>
        \A i, j \in DOMAIN layout.values :
            layout.values[i] > layout.values[j] => layout.y[i] < layout.y[j]

\* C27: a frame of a session leaves the snapshot of every session and the
\* props of the canvas unchanged; a session keeps its snapshot as long as
\* it exists; a call of recordAnimation computes the snapshot of the new
\* session from the props the canvas has at that moment.
C27_SnapshotComputedOncePerSession ==
    [][snap.stage = "mounted" =>
        \A s \in {"preview", "export"} :
            LET old == snap.sessions[s]
                new == snap'.sessions[s]
            IN  /\ (old.stage # "free" /\ new.stage # "free")
                    => new.snapshot = old.snapshot
                /\ (old.stage = "running" /\ new.stage # "free"
                        /\ new.frames = old.frames + 1)
                    => /\ snap'.props = snap.props
                       /\ \A o \in {"preview", "export"} :
                            snap.sessions[o].stage # "free"
                                => snap'.sessions[o].snapshot
                                        = snap.sessions[o].snapshot
                /\ (old.stage = "free" /\ new.stage # "free")
                    => new.snapshot = Snapshot(snap'.props)]_vars

\* An export session whose frames were drawn from a snapshot of the
\* current props, which are no longer the props of the first render, while
\* the preview of those props has its own snapshot.
C27_Witness ==
    /\ snap.stage = "mounted"
    /\ snap.props # snap.first
    /\ Snapshot(snap.props) # Snapshot(snap.first)
    /\ snap.sessions["export"].stage = "finished"
    /\ snap.sessions["export"].snapshot = Snapshot(snap.props)
    /\ snap.sessions["preview"].stage = "running"
    /\ snap.sessions["preview"].frames > 0

\* C28: a frame draws a watermark image only if the canvas's current
\* watermark has type image and a non-empty imageUrl, and then the image
\* drawn is the one of that URL.
C28_DrawnImageIsCurrent ==
    (wmark.stage = "drawn" /\ wmark.drawn # "") =>
        /\ wmark.prop.type = "image"
        /\ wmark.prop.imageUrl # ""
        /\ wmark.drawn = wmark.prop.imageUrl

\* The tags among the lines of a label.
C29_Tags(label) ==
    {k \in 1..Len(label.lines) :
        label.lines[k].tag # ""}

\* C29: in a drawn label pass the first label carries the start tag, the
\* last label of a sequence longer than 1 the destination tag, every other
\* label only its value/time line; no label carries two tags, and the
\* single label of a sequence of length 1 carries the start tag.
C29_LabelTags ==
    labelPass.stage = "placed" =>
        LET n == Len(labelPass.points)
            label(i) == labelPass.labels[i]
        IN  /\ Len(labelPass.labels) = n
            /\ label(1).lines = <<TagLine("label.start"), ValueTimeLine(1)>>
            /\ label(1).bg = "#d1fae5"
            /\ n > 1 => /\ label(n).lines = <<TagLine("label.finalDestination"),
                                              ValueTimeLine(n)>>
                        /\ label(n).bg = "#fee2e2"
            /\ \A i \in 2..(n - 1) :
                    /\ label(i).lines = <<ValueTimeLine(i)>>
                    /\ label(i).bg = "#f3f4f6"
            /\ \A i \in 1..n :
                    /\ Cardinality(C29_Tags(label(i))) <= 1
                    /\ Len(label(i).lines) = LabelLines(i, n)

\* A label pass of three points is drawn: a start label, an untagged label
\* and a destination label.
C29_Witness ==
    /\ labelPass # Idle
    /\ labelPass.stage = "placed"
    /\ Len(labelPass.labels) = 3
    /\ Len(labelPass.labels[2].lines) = 1

\* The label pass of a single point is drawn.
C29_WitnessSinglePoint ==
    /\ labelPass # Idle
    /\ labelPass.stage = "placed"
    /\ Len(labelPass.labels) = 1

\* The points of the form, before and after a step.
C30_Points == Deref(form.heap, form.points)

C30_PointsAfter == Deref(form'.heap, form'.points)

\* A step of deletePoint removes one point and leaves the first two alone.
C30_DeleteStep ==
    (\E index \in 0..(MaxFormPoints - 1) : deletePoint(index)) =>
        /\ Len(form'.points) = Len(form.points) - 1
        /\ \A i \in 1..2 : /\ form'.points[i] = form.points[i]
                           /\ C30_PointsAfter[i] = C30_Points[i]

\* A step of moveValue exchanges the values of two neighbours and changes
\* no time, no other value and not the length.
C30_MoveStep ==
    (\E index \in 0..(MaxFormPoints - 1), direction \in {"up", "down"} :
        moveValue(index, direction)) =>
        /\ form'.points = form.points
        /\ \A i \in DOMAIN form.points :
                C30_PointsAfter[i].time = C30_Points[i].time
        /\ \E i \in 1..(Len(form.points) - 1) :
                /\ C30_PointsAfter[i].value = C30_Points[i + 1].value
                /\ C30_PointsAfter[i + 1].value = C30_Points[i].value
                /\ \A k \in DOMAIN form.points \ {i, i + 1} :
                        C30_PointsAfter[k].value = C30_Points[k].value

\* C30: the point list of the form always has at least 2 entries;
\* deletePoint never removes the points at index 0 and 1; moveValue swaps
\* only the values of two neighbouring points and leaves every time and the
\* length of the list unchanged.
C30_AtLeastTwoPoints ==
    /\ [](Len(form.points) >= 2)
    /\ [][C30_DeleteStep]_vars
    /\ [][C30_MoveStep]_vars

\* A third point was added, and the first two points hold different values
\* in the order 15, 10.
C30_Witness ==
    /\ form # Idle
    /\ Len(form.points) > 2
    /\ C30_Points[1].value = 15
    /\ C30_Points[2].value = 10

C32_GeneratedPoints == Deref(form.heap, form.generated)

C32_GeneratedPointsAfter == Deref(form'.heap, form'.generated)

\* C32: a call of updatePoint, on a value or on a time, leaves the points
\* held in the generated configuration as they were.
C32_EditsLeaveGeneratedPoints ==
    [][((\E index \in 0..(MaxFormPoints - 1), value \in FormValueInputs :
            updatePoint(index, "value", value))
        \/ (\E index \in 0..(MaxFormPoints - 1), time \in FormTimeInputs :
            updatePoint(index, "time", time)))
       => C32_GeneratedPointsAfter = C32_GeneratedPoints]_vars

\* C33: the watermark height a session has reserved is the height, at the
\* maximal width, of the image its frames draw; so two sessions of one
\* configuration reserve the same height, whether they were started before
\* or after the image was decoded.
C33_ReservedHeightIsImageHeight ==
    LET height == wmHeight(preload.watermark,
                           ratioMap[preload.aspectRatio].width,
                           preload.natural)
    IN  \A s \in {"preview", "export"} :
            /\ preload.sessions[s].drewImage =>
                    preload.sessions[s].reserved = height
            /\ \A t \in {"preview", "export"} :
                    preload.sessions[s].started /\ preload.sessions[t].started
                        => preload.sessions[s].reserved
                                = preload.sessions[t].reserved

\* C34: the output.mp4 a downloadMp4 call downloads was written by the
\* call's own exec.
C34_DownloadsOwnOutput ==
    \A s \in Mp4Exports :
        sessions[s].mp4Downloaded # 0 =>
            /\ sessions[s].execRet = 0
            /\ sessions[s].mp4Downloaded = sessions[s].callId

\* C35: the chart rectangle laid out for a configuration has a positive
\* width and a positive height, and the y of every computed point lies
\* between chartTop and chartBottom (y is held multiplied by the positive
\* value range).
C35_ChartRectangleHoldsPoints ==
    /\ layout.stage \in {"laid out", "scaled"} =>
            /\ layout.chart.chartLeft < layout.chart.chartRight
            /\ layout.chart.chartTop < layout.chart.chartBottom
    /\ layout.stage = "scaled" =>
            LET range == Denominator(SeqMax(layout.values)
                                        - SeqMin(layout.values))
            IN  \A i \in DOMAIN layout.y :
                    /\ layout.chart.chartTop * range <= layout.y[i]
                    /\ layout.y[i] <= layout.chart.chartBottom * range

\* The part of a generated name before the hyphen, the 19 characters of the
\* timestamp, the dot and the extension.
C36_Prefix ==
    SubSeq(fileName.name, 1,
           Len(fileName.name) - (1 + 19 + 1 + Len(fileName.ext)))

\* C36: the prefix of a generated file name is not empty and neither starts
\* nor ends with a hyphen, for every title.
C36_PrefixNeverEmpty ==
    fileName.stage = "named" =>
        /\ C36_Prefix # <<>>
        /\ Head(C36_Prefix) # "-"
        /\ C36_Prefix[Len(C36_Prefix)] # "-"
        /\ Head(fileName.name) # "-"

\* A pass that pushes the box leaves it strictly lower than it was, with
\* its top just below one of the placed boxes.
C37_PushStep ==
    (CollisionPass /\ labelPass'.moved) =>
        /\ labelPass'.box.top > labelPass.box.top
        /\ \E k \in DOMAIN labelPass.placedLabels :
                labelPass'.box.top
                    = labelPass.placedLabels[k].bottom + Px(LabelSpacing)

====
